---- MODULE Spec2Model ----
(***************************************************************************)
(* Model of FlowchartCreateTool: FlowchartConverter.convert and the        *)
(* managers it drives (NodeManager, ConnectionManager, ContextManager,     *)
(* IfElseProcessor, LoopProcessor).                                        *)
(*                                                                         *)
(* A statement tree is a sequence of statement records.  A statement is    *)
(*   [tag, orig, text, btype, body]                                        *)
(* tag   : the "tag" key ("statement", "branch", "loop", "condition",      *)
(*         "block")                                                        *)
(* orig  : the keyword the "original_unit" starts with ("if", "else",      *)
(*         "elseif", "while", "for", "stmt", "brace"); the code only       *)
(*         tests original_unit for the substrings for/while/else/if        *)
(* text  : the "translated" key, a pair <<prefix, payload>>: the parser    *)
(*         builds it as a fixed prefix followed by the condition or the    *)
(*         statement text                                                  *)
(* btype : the "type" key of the single child block ("none" when the       *)
(*         statement has no child block)                                   *)
(* body  : the "children" of that child block                              *)
(* A statement is identified by its path: the indices leading to it.       *)
(* Python compares statements with ==; every statement the code compares   *)
(* carries a node annotation (_break_node, _if_block_info) with its own    *)
(* node id, so == coincides with identity and is modelled by path          *)
(* equality.                                                               *)
(***************************************************************************)
EXTENDS Integers, Sequences, FiniteSets, TLC

VARIABLES input, pc, item_index, st, cur, cur_y, max_y, returned, other, document

vars == <<input, pc, item_index, st, cur, cur_y, max_y, returned, other, document>>

(***************************************************************************)
(* Program constants (FlowchartConverter.__init__).                        *)
(***************************************************************************)
base_x == -4600
base_y == -4800
level_height == 125
condition_offset_x == 200
condition_offset_y == 150
loop_offset_x == 120
loop_offset_y == 120

(***************************************************************************)
(* Small helpers.                                                          *)
(***************************************************************************)
Max(a, b) == IF a >= b THEN a ELSE b
Abs(a) == IF a >= 0 THEN a ELSE -a
Last(s) == s[Len(s)]
Front(s) == SubSeq(s, 1, Len(s) - 1)

RECURSIVE SortedSeq(_)
\* the integers of I in increasing order
SortedSeq(I) ==
    IF I = {} THEN <<>>
    ELSE LET m == CHOOSE x \in I : \A y \in I : x <= y
         IN <<m>> \o SortedSeq(I \ {m})

\* the indices i >= k of s with P(s[i]), in order
SelectIdx(s, k, P(_)) == SortedSeq({i \in k..Len(s) : P(s[i])})

(***************************************************************************)
(* Texts.                                                                  *)
(***************************************************************************)
TextStart == <<"start", "">>      \* "开始"
TextEnd == <<"end", "">>          \* "结束"
TextElse == <<"else", "">>        \* "否则"
TextBreak == <<"", "break;">>
TextContinue == <<"", "continue;">>

\* payloads that contain the character '<'
PayloadHasLt(p) == p \in {"i<n"}
\* "return" in text or "返回" in text
ContainsReturn(t) == t[1] = "return"
\* "否则" in translated
ContainsElseKw(t) == t[1] \in {"else", "elif"}
\* any(kw in text for kw in ['判断：', '循环', 'for', 'while', '<', '<='])
HasLoopKeyword(t) == t[1] \in {"while", "for"} \/ PayloadHasLt(t[2])

(***************************************************************************)
(* original_unit substring tests.                                          *)
(***************************************************************************)
OrigHasFor(s) == s.orig = "for"
OrigHasWhile(s) == s.orig = "while"
OrigHasElse(s) == s.orig \in {"else", "elseif"}
OrigHasIf(s) == s.orig \in {"if", "elseif"}

(***************************************************************************)
(* Statement trees.                                                        *)
(***************************************************************************)
NoPath == <<-1>>

RECURSIVE StmtAt(_, _)
\* the statement at path p of block blk
StmtAt(blk, p) ==
    IF Len(p) = 1 THEN blk[p[1]] ELSE StmtAt(blk[p[1]].body, Tail(p))

\* the block owned by the statement at path p (<<>> owns the input list)
BlockOf(tree, p) == IF p = <<>> THEN tree ELSE StmtAt(tree, p).body

HasChildren(s) == s.btype # "none"

(***************************************************************************)
(* NodeManager.                                                            *)
(***************************************************************************)
NoNode == [id |-> <<"none", 0>>, type |-> "none", text |-> <<"", "">>, x |-> 0, y |-> 0]

IsNode(n) == n.type # "none"

\* self.ids.get(node_type, self.ids["process"])
BaseId(node_type) ==
    IF node_type \in {"input", "decision", "start", "end", "process"}
    THEN node_type ELSE "process"

\* the id without the counter: the fixed base id of the node type
get_base_id(S, node_type) ==
    [S |-> [S EXCEPT !.node_counter = @ + 1], id |-> <<BaseId(node_type), 0>>]

\* the id is the fixed base id, suffixed by the counter unless it is 0
get_unique_id(S, node_type) ==
    [S |-> [S EXCEPT !.node_counter = @ + 1],
     id |-> <<BaseId(node_type), S.node_counter>>]

\* the first element of s, or the default when s is empty
FirstOr(s, default) == IF s = <<>> THEN default ELSE s[1]

get_node_by_id(S, node_id) ==
    FirstOr(SelectSeq(S.nodes, LAMBDA n : n.id = node_id), NoNode)

\* create_node that hands out a node without putting it on the list
create_unlisted_node(S, node_type, text, x, y) ==
    LET unlisted(g) == [S |-> g.S, node |-> [id |-> g.id, type |-> node_type, text |-> text,
                                             x |-> x, y |-> y]]
    IN unlisted(get_unique_id(S, node_type))

create_node(S, node_type, text, x, y) ==
    LET update(g, k) ==
            [S |-> [g.S EXCEPT !.nodes[k] = [@ EXCEPT !.text = text, !.x = x, !.y = y]],
             node |-> [S.nodes[k] EXCEPT !.text = text, !.x = x, !.y = y]]
        append(g, node) == [S |-> [g.S EXCEPT !.nodes = Append(@, node)], node |-> node]
        place(g, hits) ==
            IF hits # <<>> THEN update(g, hits[1])
            ELSE append(g, [id |-> g.id, type |-> node_type, text |-> text,
                            x |-> x, y |-> y])
        with_id(g) == place(g, SelectIdx(S.nodes, 1, LAMBDA n : n.id = g.id))
    IN with_id(get_unique_id(S, node_type))

\* end nodes are looked up as type "start" with text "结束"
\* remove_duplicate_end_nodes with the test on the type the end nodes really
\* have: every end node but the last one made is dropped
remove_end_typed_nodes(S) ==
    IF IsNode(S.end_node)
    THEN LET dup(n) == n.type = "end" /\ n.text = TextEnd /\ n # S.end_node
             keep == SelectIdx(S.nodes, 1, LAMBDA n : ~dup(n))
             gone == SelectIdx(S.nodes, 1, dup)
         IN [S |-> [S EXCEPT !.nodes = [i \in 1..Len(keep) |-> S.nodes[keep[i]]]],
             removed |-> {S.nodes[gone[i]].id : i \in 1..Len(gone)}]
    ELSE [S |-> S, removed |-> {}]

remove_duplicate_end_nodes(S) ==
    IF IsNode(S.end_node)
    THEN LET dup(n) == n.type = "start" /\ n.text = TextEnd /\ n # S.end_node
             keep == SelectIdx(S.nodes, 1, LAMBDA n : ~dup(n))
             gone == SelectIdx(S.nodes, 1, dup)
         IN [S |-> [S EXCEPT !.nodes = [i \in 1..Len(keep) |-> S.nodes[keep[i]]]],
             removed |-> {S.nodes[gone[i]].id : i \in 1..Len(gone)}]
    ELSE [S |-> S, removed |-> {}]

(***************************************************************************)
(* ConnectionManager.                                                      *)
(***************************************************************************)
\* add_connection without its checks: the connection is always appended
append_connection(S, start_node_id, start_point_type, end_node_id, end_point_type) ==
    [S EXCEPT !.conns = Append(@,
        [start_item_id |-> start_node_id, start_point_type |-> start_point_type,
         end_item_id |-> end_node_id, end_point_type |-> end_point_type,
         label |-> "none"])]

add_connection(S, start_node_id, start_point_type, end_node_id, end_point_type) ==
    LET exists == \E i \in 1..Len(S.conns) :
                     /\ S.conns[i].start_item_id = start_node_id
                     /\ S.conns[i].start_point_type = start_point_type
                     /\ S.conns[i].end_item_id = end_node_id
                     /\ S.conns[i].end_point_type = end_point_type
        label(start_node) ==
            IF IsNode(start_node) /\ start_node.type = "decision"
            THEN IF start_point_type = "down" THEN "no"
                 ELSE IF start_point_type \in {"right", "left"} THEN "yes"
                 ELSE "none"
            ELSE "none"
        add(start_node) ==
            IF start_node_id = end_node_id THEN S
            ELSE IF IsNode(start_node) /\ start_node.type = "start"
                    /\ start_node.text = TextEnd
            THEN S
            ELSE IF exists THEN S
            ELSE [S EXCEPT !.conns = Append(@,
                     [start_item_id |-> start_node_id, start_point_type |-> start_point_type,
                      end_item_id |-> end_node_id, end_point_type |-> end_point_type,
                      label |-> label(start_node)])]
    IN add(get_node_by_id(S, start_node_id))

connection_exists(S, start_node_id, end_node_id) ==
    \E i \in 1..Len(S.conns) :
        S.conns[i].start_item_id = start_node_id /\ S.conns[i].end_item_id = end_node_id

get_connections_from_node(S, node_id) ==
    SelectSeq(S.conns, LAMBDA c : c.start_item_id = node_id)

get_connections_to_node(S, node_id) ==
    SelectSeq(S.conns, LAMBDA c : c.end_item_id = node_id)

remove_connections_with_nodes(S, node_ids) ==
    [S EXCEPT !.conns = SelectSeq(@,
        LAMBDA c : c.start_item_id \notin node_ids /\ c.end_item_id \notin node_ids)]

\* connections.remove(conn): drops the first equal connection
remove_connection(S, conn) ==
    LET k == SelectIdx(S.conns, 1, LAMBDA c : c = conn)
    IN IF k = <<>> THEN S
       ELSE [S EXCEPT !.conns = SubSeq(@, 1, k[1] - 1) \o SubSeq(@, k[1] + 1, Len(@))]

(***************************************************************************)
(* ContextManager and the annotations the converter writes on statements   *)
(* (_context_type, _if_block_info, _else_block_info, _if_block_max_y,      *)
(* _else_block_max_y, _is_break/_break_node/_parent_loop_statement) are    *)
(* partial maps keyed by statement index or statement path.                *)
(***************************************************************************)
Has(m, k) == k \in DOMAIN m
Put(m, k, v) == (k :> v) @@ m
Get(m, k, default) == IF k \in DOMAIN m THEN m[k] ELSE default

register_statement_first_node(S, index, node) ==
    [S EXCEPT !.statement_first_nodes = Put(@, index, node)]
get_statement_first_node(S, index) == Get(S.statement_first_nodes, index, NoNode)

register_loop_condition_node(S, p, node) ==
    [S EXCEPT !.loop_condition_nodes = Put(@, p, node)]
get_loop_condition_node(S, p) == Get(S.loop_condition_nodes, p, NoNode)

add_pending_reconnect(S, info) ==
    [S EXCEPT !.pending_if_else_reconnects = Append(@, info)]

NoInfo == [last_node |-> NoNode, has_return |-> FALSE]

(***************************************************************************)
(* utils.count_statement_chain, on a statement and on a child block.  A    *)
(* child block has no "tag", so it counts 1 like a statement.              *)
(***************************************************************************)
RECURSIVE count_statement_chain(_)
count_chain_block(body) ==
    IF body = <<>> THEN 1
    ELSE LET m(i) == 1 + count_statement_chain(body[i])
         IN CHOOSE v \in {m(i) : i \in 1..Len(body)} :
                \A i \in 1..Len(body) : m(i) <= v
count_statement_chain(s) ==
    LET current_length == IF s.tag # "block" THEN 1 ELSE 0
    IN IF HasChildren(s) THEN current_length + count_chain_block(s.body)
       ELSE current_length

MaxOver(vals) == IF vals = {} THEN 0 ELSE CHOOSE v \in vals : \A w \in vals : w <= v

\* _calculate_while_statement_chain
calculate_while_statement_chain(item) ==
    IF item.btype \in {"while_true_block", "while_block", "body"}
    THEN MaxOver({count_statement_chain(item.body[i]) :
                    i \in {j \in 1..Len(item.body) : item.body[j].tag # "block"}})
    ELSE 0

\* _calculate_max_statement_chain(child), child being the if_block
calculate_max_statement_chain(body) ==
    MaxOver({count_chain_block(body[i].body) :
                i \in {j \in 1..Len(body) : HasChildren(body[j])}})

(***************************************************************************)
(* _check_next_if_in_n_statements.  check_statements walks statements and  *)
(* their child blocks alike, counting both; self.current_block is never    *)
(* assigned, so the scan of the following statements never runs.           *)
(***************************************************************************)
ItemsOfBody(body) == [i \in 1..Len(body) |-> [kind |-> "stmt", s |-> body[i]]]
ChildItems(it) ==
    IF it.kind = "stmt"
    THEN IF HasChildren(it.s)
         THEN <<[kind |-> "block", type |-> it.s.btype, body |-> it.s.body]>>
         ELSE <<>>
    ELSE ItemsOfBody(it.body)

RECURSIVE check_statements_from(_, _, _, _)
check_statements(items, max_count, c) ==
    IF c.n >= max_count \/ c.found THEN c
    ELSE check_statements_from(items, 1, max_count, c)
check_statements_from(items, k, max_count, c) ==
    IF k > Len(items) THEN c
    ELSE LET it == items[k]
             c1 == [c EXCEPT !.n = @ + 1]
         IN IF it.kind = "block" /\ it.type \in {"if_block", "while_block", "while_true_block"}
            THEN [c1 EXCEPT !.found = TRUE]
            ELSE LET c2 == check_statements(ChildItems(it), max_count, c1)
                 IN IF c2.n >= max_count \/ c2.found THEN c2
                    ELSE check_statements_from(items, k + 1, max_count, c2)

check_next_if_in_n_statements(statement, max_statement_chain) ==
    IF max_statement_chain <= 0 THEN FALSE
    ELSE IF ~HasChildren(statement) THEN FALSE
    ELSE check_statements(ItemsOfBody(statement.body), max_statement_chain,
                          [n |-> 0, found |-> FALSE]).found

(***************************************************************************)
(* LoopProcessor.                                                          *)
(***************************************************************************)
\* _has_inner_conditional is applied to the loop-body block: it looks at
\* the child blocks of the body's statements
has_inner_conditional(body) ==
    \E i \in 1..Len(body) :
        body[i].btype \in {"if_block", "while_block", "while_true_block"}

calculate_loop_offset(body, base_offset) ==
    IF has_inner_conditional(body) THEN base_offset * 2 ELSE base_offset

RECURSIVE check_next_from(_, _, _, _)
check_next_from(tree, next_idx, check_count, statement_count) ==
    IF next_idx > Len(tree) THEN FALSE
    ELSE LET next_item == tree[next_idx]
         IN IF next_item.tag = "block"
            THEN check_next_from(tree, next_idx + 1, check_count, statement_count)
            ELSE IF OrigHasIf(next_item) \/ OrigHasWhile(next_item)
                    \/ next_item.tag \in {"condition", "branch", "loop"}
            THEN TRUE
            ELSE IF check_count + 1 >= statement_count THEN FALSE
            ELSE check_next_from(tree, next_idx + 1, check_count + 1, statement_count)

check_next_statements_for_conditional(tree, loop_index, statement_count) ==
    IF statement_count <= 0 THEN FALSE
    ELSE check_next_from(tree, loop_index + 1, 0, statement_count)

\* if_block_last_node is always None, and the fallback never finds an if
\* node, so only the plain back edge is ever added
add_loop_body_reconnection(S, body_current, loop_condition_node, body_return) ==
    IF IsNode(body_current) /\ ~body_return
    THEN add_connection(S, body_current.id, "right", loop_condition_node.id, "up")
    ELSE S

\* _infer_context_type: statements carry no "type" key
infer_context_type(parent_block) ==
    IF parent_block = <<>> THEN "main"
    ELSE IF \E i \in 1..Len(parent_block) :
               \/ OrigHasFor(parent_block[i]) \/ OrigHasWhile(parent_block[i])
               \/ parent_block[i].tag = "loop"
    THEN "loop"
    ELSE "main"

(***************************************************************************)
(* FlowchartConverter: statement and block processing.  Every operator     *)
(* takes the converter state S and returns the new state with its result.  *)
(* p is the path of the statement, "none" is a context_type of None and    *)
(* NoPath a statement argument of None.                                    *)
(***************************************************************************)
\* node_manager.create_node, then "if parent_node: add_connection(parent_node,
\* connection_dir, node, 'up')"
linked(c, parent_node, connection_dir) ==
    [S |-> IF IsNode(parent_node)
           THEN add_connection(c.S, parent_node.id, connection_dir, c.node.id, "up")
           ELSE c.S,
     node |-> c.node]
create_linked_node(S, node_type, text, x, y, parent_node, connection_dir) ==
    linked(create_node(S, node_type, text, x, y), parent_node, connection_dir)

_process_return_statement(S, x, y, parent_node, connection_dir) ==
    LET done(c) == [S |-> [c.S EXCEPT !.end_node = c.node, !.last_node = c.node],
                    node |-> c.node, ret |-> TRUE, x |-> x, y |-> y + level_height]
    IN done(create_linked_node(S, "end", TextEnd, x, y, parent_node, connection_dir))

_process_break_statement(S, p, x, y, parent_node, connection_dir, parent_loop_statement) ==
    LET done(c) ==
            [S |-> [c.S EXCEPT !.last_node = c.node,
                               !.break_info = Put(@, p, [node |-> c.node,
                                                         ploop |-> parent_loop_statement])],
             node |-> c.node, ret |-> TRUE, x |-> x, y |-> y + level_height]
    IN done(create_linked_node(S, "process", TextBreak, x, y, parent_node, connection_dir))

_process_continue_statement(S, p, x, y, parent_node, connection_dir, parent_loop_statement) ==
    LET loop_condition_node(S1) ==
            IF parent_loop_statement # NoPath
            THEN get_loop_condition_node(S1, parent_loop_statement)
            ELSE NoNode
        to_loop(c, n) ==
            IF IsNode(n) THEN add_connection(c.S, c.node.id, "right", n.id, "up") ELSE c.S
        done(c) == [S |-> [to_loop(c, loop_condition_node(c.S)) EXCEPT !.last_node = c.node],
                    node |-> c.node, ret |-> TRUE, x |-> x, y |-> y + level_height]
    IN done(create_linked_node(S, "process", TextContinue, x, y, parent_node,
                               connection_dir))

\* _adjust_y_after_branches
adjust_y_after_branches(S, p, y, next_y) ==
    LET a == IF Has(S.if_max_y, p) THEN Max(y, S.if_max_y[p]) ELSE y
        max_branch_y == IF Has(S.else_max_y, p) THEN Max(a, S.else_max_y[p]) ELSE a
    IN Max(next_y, max_branch_y + level_height)

RECURSIVE connect_switch_cases(_, _, _, _)
\* process_block: the down port of every pending last node of a case joined
\* to the up port of the node of the statement after the switch
connect_switch_cases(S, last_nodes, i, stmt_current) ==
    IF i > Len(last_nodes) THEN S
    ELSE connect_switch_cases(
             IF IsNode(last_nodes[i]) /\ last_nodes[i].id # stmt_current.id
             THEN add_connection(S, last_nodes[i].id, "down", stmt_current.id, "up")
             ELSE S,
             last_nodes, i + 1, stmt_current)

\* History of the walk, read by no operator of the converter: stmt_nodes maps
\* the path of a statement to the id of the node a create_node call made for it.
made(r, p) == [r EXCEPT !.S.stmt_nodes = Put(@, p, r.node.id)]

RECURSIVE process_statement(_, _, _, _, _, _, _, _, _)
RECURSIVE process_block(_, _, _, _, _, _, _, _, _)
RECURSIVE process_block_from(_, _, _, _, _, _, _, _, _, _, _, _, _)
RECURSIVE process_switch_cases_from(_, _, _, _, _, _, _, _, _, _, _)
RECURSIVE _process_else_block_from(_, _, _, _, _, _, _, _)
RECURSIVE _process_statement_children(_, _, _, _, _, _, _, _)
RECURSIVE process_statement_children_of(_, _, _, _, _, _, _)
RECURSIVE _save_if_else_reconnect_in_block(_, _, _, _, _, _, _)

\* the grandchild loop of _process_else_block; an else_block child of a
\* plain else statement never carries an "x", so block_x is x
_process_else_block_from(S, p, k, x, parent_node, last_child_node, child_has_return, child_next_y) ==
    LET first == IsNode(parent_node) /\ ~IsNode(last_child_node)
        next(r) == _process_else_block_from(r.S, p, k + 1, r.x, parent_node, r.node,
                       child_has_return \/ r.ret, Max(child_next_y, r.y))
    IN IF k > Len(StmtAt(S.input_json, p).body)
       THEN [S |-> S, node |-> IF IsNode(last_child_node) THEN last_child_node ELSE parent_node,
             ret |-> child_has_return, x |-> x, y |-> child_next_y]
       ELSE next(process_statement(S, p \o <<k>>, x,
                     IF first THEN parent_node.y + condition_offset_y ELSE child_next_y,
                     IF first THEN parent_node ELSE last_child_node,
                     "down", "none", <<>>, NoPath))

_process_else_block(S, p, x, y, parent_node) ==
    LET child_next_y == IF IsNode(parent_node) THEN parent_node.y + condition_offset_y ELSE y
        done(r) == [r EXCEPT !.x = x]
    IN IF StmtAt(S.input_json, p).btype = "else_block"
       THEN done(_process_else_block_from(S, p, 1, x, parent_node, NoNode, FALSE,
                                          child_next_y))
       ELSE [S |-> S, node |-> parent_node, ret |-> FALSE, x |-> x, y |-> child_next_y]

_process_if_block(S, p, current_node, x, y, context_type, parent_block, parent_loop_statement) ==
    LET statement == StmtAt(S.input_json, p)
        has_next == check_next_if_in_n_statements(statement,
                        calculate_max_statement_chain(statement.body))
        condition_x_offset == IF has_next THEN condition_offset_x * 2 ELSE condition_offset_x
        final_if_context_type == IF context_type # "none" THEN context_type
                                 ELSE infer_context_type(parent_block)
        done(r) ==
            [S |-> [r.S EXCEPT !.if_info = Put(@, p, [last_node |-> r.node,
                                                      has_return |-> r.ret]),
                               !.if_max_y = Put(@, p, r.y)],
             ret |-> r.ret, y |-> r.y]
    IN done(process_block(S, p, x + condition_x_offset, y + condition_offset_y,
                          current_node, "right", final_if_context_type, p,
                          parent_loop_statement))

_process_else_block_in_statement(S, p, current_node, x, y, context_type, parent_block, parent_loop_statement) ==
    LET final_else_context_type == IF context_type # "none" THEN context_type
                                   ELSE infer_context_type(parent_block)
        done(r) ==
            [S |-> [r.S EXCEPT !.else_info = Put(@, p, [last_node |-> r.node,
                                                        has_return |-> r.ret]),
                               !.else_max_y = Put(@, p, r.y)],
             ret |-> r.ret, y |-> r.y]
    IN done(process_block(S, p, x + condition_offset_x * 2, y + condition_offset_y,
                          current_node, "down", final_else_context_type, p,
                          parent_loop_statement))

\* _process_while_block_in_statement and _process_for_block_in_statement
_process_loop_block_in_statement(S, p, current_node, x, y, loop_x_offset) ==
    LET done(r) == [S |-> add_connection(r.S, r.node.id, "right", current_node.id, "up"),
                    ret |-> FALSE, y |-> r.y]
    IN done(process_block(IF IsNode(current_node)
                          THEN register_loop_condition_node(S, p, current_node)
                          ELSE S,
                          p, x + loop_x_offset, y + loop_offset_y, current_node,
                          "down", "loop", p, p))

\* the loop over the case_block children of a switch: child idx of the
\* statement at p is the block of the case at path p \o <<idx>>
process_switch_cases_from(S, p, idx, current_node, x, y, context_type, parent_loop_statement, last_nodes, max_case_y, has_return) ==
    LET base_case_y == y + condition_offset_y
        base_case_x == x + condition_offset_x
        case_spacing == Max(condition_offset_x * 2, 150)
        next(r) == process_switch_cases_from(r.S, p, idx + 1, current_node, x, y,
                       context_type, parent_loop_statement,
                       IF IsNode(r.node) THEN Append(last_nodes, r.node) ELSE last_nodes,
                       IF IsNode(r.node) THEN Max(max_case_y, r.y) ELSE max_case_y,
                       has_return \/ r.ret)
    IN IF idx > Len(StmtAt(S.input_json, p).body)
       THEN [S |-> IF last_nodes # <<>>
                   THEN [S EXCEPT !.switch_last = Put(@, p, last_nodes)]
                   ELSE S,
             ret |-> has_return, y |-> max_case_y]
       ELSE next(process_block(S, p \o <<idx>>, base_case_x + (idx - 1) * case_spacing,
                               base_case_y, current_node, "down", context_type, p,
                               parent_loop_statement))

_process_switch_cases_in_statement(S, p, current_node, x, y, context_type, parent_loop_statement) ==
    IF StmtAt(S.input_json, p).body = <<>> \/ ~IsNode(current_node)
    THEN [S |-> S, ret |-> FALSE, y |-> y + level_height]
    ELSE process_switch_cases_from(S, p, 1, current_node, x, y, context_type,
             parent_loop_statement, <<>>, y + condition_offset_y, FALSE)

_process_statement_children(S, p, current_node, x, y, context_type, parent_block, parent_loop_statement) ==
    LET statement == StmtAt(S.input_json, p)
        done(r) == [S |-> r.S, ret |-> r.ret, x |-> x, y |-> r.y]
    IN IF statement.btype = "case_block"
       THEN done(_process_switch_cases_in_statement(S, p, current_node, x, y,
                     context_type, parent_loop_statement))
       ELSE IF statement.btype = "if_block"
       THEN done(_process_if_block(S, p, current_node, x, y, context_type,
                                   parent_block, parent_loop_statement))
       ELSE IF statement.btype = "else_block"
       THEN done(_process_else_block_in_statement(S, p, current_node, x, y,
                     context_type, parent_block, parent_loop_statement))
       ELSE IF statement.btype \in {"while_true_block", "for_true_block"}
       THEN done(_process_loop_block_in_statement(S, p, current_node, x, y,
                     IF statement.btype = "while_true_block"
                     THEN calculate_loop_offset(statement.body, loop_offset_x)
                     ELSE loop_offset_x))
       ELSE [S |-> S, ret |-> FALSE, x |-> x, y |-> y + level_height]

\* process_statement from the call of _process_statement_children on: c is
\* the node made for the statement, with self.last_node and the y after it
process_statement_children_of(c, p, x, y, context_type, parent_block, parent_loop_statement) ==
    LET statement == StmtAt(c.S.input_json, p)
        next_y(r) == IF statement.tag \in {"condition", "branch"} /\ HasChildren(statement)
                     THEN adjust_y_after_branches(r.S, p, y, r.y)
                     ELSE r.y
        done(r) == [S |-> [r.S EXCEPT !.last_node = c.node],
                    node |-> c.node, ret |-> r.ret, x |-> r.x, y |-> next_y(r)]
    IN done(_process_statement_children(c.S, p, c.node, x, y, context_type,
                                        parent_block, parent_loop_statement))

process_statement(S, p, x, y, parent_node, connection_dir, context_type, parent_block, parent_loop_statement) ==
    LET statement == StmtAt(S.input_json, p)
        tag == statement.tag
        node_text == statement.text
        node_type == IF tag = "i/o" THEN "input"
                     ELSE IF tag \in {"condition", "branch", "loop"} THEN "decision"
                     ELSE "process"
        is_else == /\ tag \in {"condition", "branch", "loop"}
                   /\ ~(OrigHasWhile(statement) /\ tag = "loop")
                   /\ OrigHasElse(statement) /\ node_text = TextElse
        with_context(c) ==
            [S |-> IF context_type # "none"
                   THEN [c.S EXCEPT !.ctx_type = Put(@, p, context_type)]
                   ELSE c.S,
             node |-> c.node]
    IN IF tag = "block"
       THEN [S |-> S, node |-> parent_node, ret |-> FALSE, x |-> x, y |-> y]
       ELSE IF is_else
       THEN _process_else_block(S, p, x, y, parent_node)
       ELSE made(IF ContainsReturn(node_text)
                 THEN _process_return_statement(S, x, y, parent_node, connection_dir)
                 ELSE IF node_text = TextBreak
                 THEN _process_break_statement(S, p, x, y, parent_node, connection_dir,
                                               parent_loop_statement)
                 ELSE IF node_text = TextContinue
                 THEN _process_continue_statement(S, p, x, y, parent_node, connection_dir,
                                                  parent_loop_statement)
                 ELSE process_statement_children_of(
                          linked(with_context(create_node(S, node_type, node_text, x, y)),
                                 parent_node, connection_dir),
                          p, x, y, context_type, parent_block, parent_loop_statement),
                 p)

process_block_from(S, owner, k, x, parent_node, connection_dir, context_type, parent_statement, parent_loop_statement, current_node, has_return, current_y, pending_switch_case_last_nodes) ==
    LET block == BlockOf(S.input_json, owner)
        effective_parent == IF parent_loop_statement # NoPath
                            THEN parent_loop_statement ELSE parent_statement
        \* the last nodes of the cases of the switch before, joined to the
        \* node of this statement
        joined(r) == IF IsNode(r.node)
                     THEN [r EXCEPT !.S = connect_switch_cases(
                                              @, pending_switch_case_last_nodes, 1, r.node)]
                     ELSE r
        saved(r) == IF block[k].tag \in {"condition", "branch"}
                    THEN _save_if_else_reconnect_in_block(r.S, owner \o <<k>>, r.node, k,
                             owner, context_type, effective_parent)
                    ELSE r.S
        after(r, T) == process_block_from(T, owner, k + 1, x, parent_node,
                           connection_dir, context_type, parent_statement,
                           parent_loop_statement, r.node, has_return \/ r.ret, r.y,
                           IF Has(T.switch_last, owner \o <<k>>)
                           THEN T.switch_last[owner \o <<k>>]
                           ELSE IF IsNode(r.node) THEN <<>>
                           ELSE pending_switch_case_last_nodes)
        next(r) == after(r, saved(r))
    IN IF k > Len(block)
       THEN [S |-> S, node |-> current_node, ret |-> has_return, x |-> x, y |-> current_y]
       ELSE IF block[k].tag = "block"
       THEN process_block_from(S, owner, k + 1, x, parent_node, connection_dir,
                context_type, parent_statement, parent_loop_statement, current_node,
                has_return, current_y, pending_switch_case_last_nodes)
       ELSE next(joined(process_statement(S, owner \o <<k>>, x, current_y, current_node,
                            IF current_node = parent_node THEN connection_dir ELSE "down",
                            context_type, block, parent_loop_statement)))

\* the block is the body of the statement at path owner
process_block(S, owner, x, y, parent_node, connection_dir, context_type, parent_statement, parent_loop_statement) ==
    process_block_from(S, owner, 1, x, parent_node, connection_dir, context_type,
        parent_statement,
        IF context_type = "loop" /\ parent_statement # NoPath
           /\ parent_loop_statement = NoPath
        THEN parent_statement ELSE parent_loop_statement,
        parent_node, FALSE, y, <<>>)

(***************************************************************************)
(* utils.is_statement_in_loop / is_statement_in_block, on paths: sp is the *)
(* statement looked for, lp the statement whose child block is searched.   *)
(***************************************************************************)
RECURSIVE is_statement_in_block(_, _, _)
is_statement_in_block(tree, sp, owner) ==
    LET block == BlockOf(tree, owner)
    IN \E k \in 1..Len(block) :
          \/ owner \o <<k>> = sp
          \/ HasChildren(block[k]) /\ is_statement_in_block(tree, sp, owner \o <<k>>)

RECURSIVE is_statement_in_loop(_, _, _)
is_statement_in_loop(tree, sp, lp) ==
    LET loop_item == StmtAt(tree, lp)
    IN IF ~HasChildren(loop_item) THEN FALSE
       ELSE IF loop_item.btype \in {"for_block", "while_block", "while_true_block"}
       THEN is_statement_in_block(tree, sp, lp)
       ELSE \E k \in 1..Len(loop_item.body) : is_statement_in_loop(tree, sp, lp \o <<k>>)

IsLoopish(s) == OrigHasFor(s) \/ OrigHasWhile(s) \/ s.tag \in {"loop", "condition"}

RECURSIVE find_enclosing_loop_node(_, _, _)
\* the scan of input_json in _save_if_else_reconnect_in_block
find_enclosing_loop_node(S, p, li) ==
    LET found(a) == IF IsNode(a) THEN a ELSE get_statement_first_node(S, li)
        or_next(b) == IF IsNode(b) THEN b ELSE find_enclosing_loop_node(S, p, li + 1)
    IN IF li > Len(S.input_json) THEN NoNode
       ELSE IF IsLoopish(S.input_json[li]) /\ is_statement_in_loop(S.input_json, p, <<li>>)
       THEN or_next(found(get_loop_condition_node(S, <<li>>)))
       ELSE find_enclosing_loop_node(S, p, li + 1)

_save_if_else_reconnect_in_block(S, p, stmt_current, idx, owner, context_type, parent_statement) ==
    LET ctx0 == Get(S.ctx_type, p, context_type)
        from_parent == IF parent_statement # NoPath
                       THEN get_loop_condition_node(S, parent_statement) ELSE NoNode
        is_in_loop1 == ctx0 = "loop" \/ IsNode(from_parent)
        if_block_info == Get(S.if_info, p, NoInfo)
        else_block_info == Get(S.else_info, p, NoInfo)
        save(scanned) ==
            add_pending_reconnect(S,
               [if_last_node |-> if_block_info.last_node,
                else_last_node |-> else_block_info.last_node,
                if_has_return |-> if_block_info.has_return,
                else_has_return |-> else_block_info.has_return,
                condition_node |-> stmt_current,
                parent_block |-> owner,
                if_statement_index |-> idx,
                context_type |-> IF is_in_loop1 \/ IsNode(scanned) THEN "loop" ELSE ctx0,
                loop_condition_node |-> IF IsNode(from_parent) THEN from_parent
                                        ELSE scanned,
                parent_statement |-> parent_statement])
    IN IF ~(Has(S.if_info, p) \/ Has(S.else_info, p)) THEN S
       ELSE save(IF ~IsNode(from_parent) /\ ~is_in_loop1
                 THEN find_enclosing_loop_node(S, p, 1) ELSE NoNode)

(***************************************************************************)
(* FlowchartConverter: the top-level items of convert.                     *)
(***************************************************************************)
_is_loop_structure(item) ==
    (OrigHasFor(item) \/ OrigHasWhile(item)) /\ item.tag \in {"condition", "loop"}

\* _process_for_loop (body_types = {"for_block"}, single offset) and
\* _process_while_loop (body_types = {"while_true_block", "while_block"})
top_loop_body(c, index, current_node, current_y, body_types, loop_x_offset) ==
    LET S3 == [register_loop_condition_node(c.S, <<index>>, c.node)
                EXCEPT !.stmt_nodes = Put(@, <<index>>, c.node.id)]
        done(r) == [S |-> add_loop_body_reconnection(r.S, r.node, c.node, r.ret),
                    node |-> c.node, y |-> r.y]
    IN IF c.S.input_json[index].btype \in body_types
       THEN done(process_block(S3, <<index>>, base_x + loop_x_offset,
                     current_y + loop_offset_y, c.node, "right", "loop", <<index>>, NoPath))
       ELSE [S |-> S3, node |-> current_node, y |-> current_y]

process_top_loop(S, index, current_node, current_y, body_types, loop_x_offset) ==
    LET connected(c) ==
            [S |-> add_connection(c.S, current_node.id, "down", c.node.id, "up"),
             node |-> c.node]
    IN top_loop_body(connected(create_node(S, "decision", S.input_json[index].text,
                                           base_x, current_y)),
                     index, current_node, current_y, body_types, loop_x_offset)

_process_for_loop(S, index, current_node, current_y) ==
    process_top_loop(S, index, current_node, current_y, {"for_block"}, loop_offset_x)

_process_while_loop(S, index, current_node, current_y) ==
    process_top_loop(S, index, current_node, current_y,
        {"while_true_block", "while_block"},
        IF check_next_statements_for_conditional(S.input_json, index,
               calculate_while_statement_chain(S.input_json[index]))
        THEN loop_offset_x * 2 ELSE loop_offset_x)

RECURSIVE find_loop_before(_, _)
\* _find_loop_condition_node: the nearest loop-like item before index
find_loop_before(S, prev_idx) ==
    LET found(a) == IF IsNode(a) THEN a ELSE get_statement_first_node(S, prev_idx)
    IN IF prev_idx < 1 THEN NoNode
       ELSE IF IsLoopish(S.input_json[prev_idx])
       THEN found(get_loop_condition_node(S, <<prev_idx>>))
       ELSE find_loop_before(S, prev_idx - 1)

_save_if_else_reconnect_info(S, index, stmt_current) ==
    LET p == <<index>>
        if_block_info == Get(S.if_info, p, NoInfo)
        else_block_info == Get(S.else_info, p, NoInfo)
        context_type == Get(S.ctx_type, p, "main")
    IN IF ~(Has(S.if_info, p) \/ Has(S.else_info, p)) THEN S
       ELSE add_pending_reconnect(S,
          [if_last_node |-> if_block_info.last_node,
           else_last_node |-> else_block_info.last_node,
           if_has_return |-> if_block_info.has_return,
           else_has_return |-> else_block_info.has_return,
           condition_node |-> stmt_current,
           parent_block |-> <<>>,
           if_statement_index |-> index,
           context_type |-> context_type,
           loop_condition_node |-> IF context_type = "loop"
                                   THEN find_loop_before(S, index - 1) ELSE NoNode,
           parent_statement |-> NoPath])

_process_normal_statement(S, index, current_node, current_y) ==
    LET saved(S1, node) == IF S.input_json[index].tag \in {"condition", "branch"}
                           THEN _save_if_else_reconnect_info(S1, index, node) ELSE S1
        done(r) == [S |-> saved(register_statement_first_node(r.S, index, r.node), r.node),
                    node |-> r.node, y |-> r.y]
    IN done(process_statement(S, <<index>>, base_x, current_y, current_node, "down",
                              "none", <<>>, NoPath))

\* the body of the loop over input_json in convert
convert_item(S, index, current_node, current_y) ==
    LET item == S.input_json[index]
    IN IF item.tag = "block" THEN [S |-> S, node |-> current_node, y |-> current_y]
       ELSE IF _is_loop_structure(item)
       THEN IF OrigHasFor(item) THEN _process_for_loop(S, index, current_node, current_y)
            ELSE _process_while_loop(S, index, current_node, current_y)
       ELSE _process_normal_statement(S, index, current_node, current_y)

_create_end_node(S, current_node, maxy) ==
    LET set_end(c) == [S |-> [c.S EXCEPT !.end_node = c.node], node |-> c.node]
        connect(c) ==
            IF current_node # c.node /\ ~connection_exists(c.S, current_node.id, c.node.id)
            THEN add_connection(c.S, current_node.id, "down", c.node.id, "up")
            ELSE c.S
        clean(r) == IF r.removed # {} THEN remove_connections_with_nodes(r.S, r.removed)
                    ELSE r.S
    IN clean(remove_duplicate_end_nodes(
                 IF ~IsNode(S.end_node)
                 THEN connect(set_end(create_node(S, "end", TextEnd, base_x,
                                                  maxy + level_height + 100)))
                 ELSE S))

\* the converter as constructed by __init__
NewConverter ==
    [nodes |-> <<>>, conns |-> <<>>, node_counter |-> 0,
     start_node |-> NoNode, end_node |-> NoNode, last_node |-> NoNode,
     input_json |-> <<>>, statement_first_nodes |-> <<>>, loop_condition_nodes |-> <<>>,
     pending_if_else_reconnects |-> <<>>,
     ctx_type |-> <<>>, if_info |-> <<>>, else_info |-> <<>>, if_max_y |-> <<>>,
     else_max_y |-> <<>>, break_info |-> <<>>, switch_last |-> <<>>, stmt_nodes |-> <<>>,
     processed_if_else |-> {}, current_y |-> base_y]

\* _reset_all and set_input_json: the managers are reset; processed_if_else
\* and self.current_y are not
_reset_all(S, tree) ==
    [NewConverter EXCEPT !.input_json = tree,
                         !.processed_if_else = S.processed_if_else,
                         !.current_y = S.current_y]

\* convert, up to the loop over input_json
convert_start(S, tree) ==
    LET started(c) == [c.S EXCEPT !.start_node = c.node, !.current_y = @ + level_height]
    IN started(create_node(_reset_all(S, tree), "start", TextStart, base_x, S.current_y))

(***************************************************************************)
(* IfElseProcessor.  Indices are 1-based; index 0 stands for Python's -1.  *)
(* The context stack is never pushed to, so step 3 of                      *)
(* _find_reconnect_target never runs.  Scores are scaled by 100 to stay    *)
(* in the integers.                                                        *)
(***************************************************************************)
IsElseBranch(s) == s.tag = "branch" /\ ContainsElseKw(s.text)

RECURSIVE calculate_skip_from(_, _)
\* 1 + the number of else branches that directly follow position k
calculate_skip_from(block, k) ==
    IF k + 1 <= Len(block) /\ IsElseBranch(block[k + 1])
    THEN 1 + calculate_skip_from(block, k + 1) ELSE 1

\* the first node with the statement's text, other than exclude_node
_find_node_by_statement(S, statement, exclude_node) ==
    FirstOr(SelectSeq(S.nodes,
                LAMBDA n : ~(IsNode(exclude_node) /\ n.id = exclude_node.id)
                           /\ n.text = statement.text),
            NoNode)

\* the first i in from..Len(block) for which Target(i) is a node
FirstTarget(block, from, Target(_)) ==
    LET hits == {i \in from..Len(block) : block[i].tag # "block" /\ IsNode(Target(i))}
    IN IF hits = {} THEN NoNode
       ELSE Target(CHOOSE i \in hits : \A j \in hits : i <= j)

\* step 4: the closest node below, by score
closest_node_below(S, condition_node, else_last_node) ==
    LET target_y == IF IsNode(else_last_node) THEN else_last_node.y ELSE condition_node.y
        intermediate(n) ==
            \E i \in 1..Len(S.conns) :
                /\ S.conns[i].start_item_id = n.id
                /\ S.conns[i].start_point_type = "down"
                /\ LET t == get_node_by_id(S, S.conns[i].end_item_id)
                   IN IsNode(t) /\ t.y >= n.y
        distance(n) == n.y - target_y
        candidate(n) ==
            /\ n.y > target_y
            /\ ~(IsNode(else_last_node) /\ n.id = else_last_node.id)
            /\ n.text # TextEnd
            /\ ~(intermediate(n) /\ distance(n) < 200)
        score(n) ==
            distance(n) * (IF Abs(n.x - base_x) < 50 THEN 5 ELSE 10)
                        * (IF n.type = "decision" /\ 150 < distance(n) /\ distance(n) < 250
                           THEN 3 ELSE 10)
        C == {i \in 1..Len(S.nodes) : candidate(S.nodes[i])}
    IN IF C = {} THEN NoNode
       ELSE S.nodes[CHOOSE i \in C : \A j \in C :
                       \/ score(S.nodes[i]) < score(S.nodes[j])
                       \/ score(S.nodes[i]) = score(S.nodes[j]) /\ i <= j]

NoTarget == [node |-> NoNode, start_point |-> "none"]

_find_reconnect_target(S, owner, if_statement_index, next_statement_first_node, loop_condition_node, condition_node, else_last_node, current_context_type) ==
    LET parent_block == BlockOf(S.input_json, owner)
        from == if_statement_index + calculate_skip_from(parent_block, if_statement_index)
        not_else(n) == IF IsNode(else_last_node) /\ n.id = else_last_node.id THEN NoNode ELSE n
        \* step 1: a following statement of the same block
        t1(i) == IF IsNode(next_statement_first_node) THEN not_else(next_statement_first_node)
                 ELSE IF owner = <<>> THEN not_else(get_statement_first_node(S, i))
                 ELSE _find_node_by_statement(S, parent_block[i], else_last_node)
        \* step 2: in a loop, a provided next node that is not the loop's node
        step2 == current_context_type = "loop" /\ IsNode(next_statement_first_node)
                 /\ IsNode(loop_condition_node)
                 /\ next_statement_first_node.id # loop_condition_node.id
        should_check_loop_later == current_context_type = "loop" /\ IsNode(loop_condition_node)
        t5(i) == not_else(get_statement_first_node(S, i))
        down(n) == [node |-> n, start_point |-> "down"]
        choose(step1, step4, step5) ==
            IF IsNode(step1) THEN down(step1)
            ELSE IF step2 THEN down(next_statement_first_node)
            ELSE IF IsNode(step4) THEN down(step4)
            ELSE IF IsNode(step5) THEN down(step5)
            ELSE IF should_check_loop_later
            THEN [node |-> loop_condition_node, start_point |-> "right"]
            ELSE NoTarget
    IN choose(IF if_statement_index >= 1 THEN FirstTarget(parent_block, from, t1)
              ELSE NoNode,
              IF current_context_type = "main" /\ ~IsNode(loop_condition_node)
                 /\ IsNode(condition_node)
              THEN closest_node_below(S, condition_node, else_last_node)
              ELSE NoNode,
              IF owner = <<>> /\ if_statement_index >= 1
              THEN FirstTarget(parent_block, from, t5) ELSE NoNode)

\* the reconnection of one branch of handle_if_else_reconnect
reconnect_branch(S, last_node, owner, if_statement_index, next_statement_first_node, loop_condition_node, condition_node, else_last_node, current_context_type) ==
    LET connect(t) ==
            IF ~IsNode(t.node) THEN S
            ELSE IF t.start_point = "down" /\ t.node.y < last_node.y THEN S
            ELSE add_connection(S, last_node.id, t.start_point, t.node.id, "up")
    IN connect(_find_reconnect_target(S, owner, if_statement_index,
                   next_statement_first_node, loop_condition_node, condition_node,
                   else_last_node, current_context_type))

\* a branch is reconnected when it has a last node and does not return
reconnect_if_open(S, last_node, has_return, owner, if_statement_index, next_statement_first_node, loop_condition_node, condition_node, else_last_node, current_context_type) ==
    IF IsNode(last_node) /\ ~has_return
    THEN reconnect_branch(S, last_node, owner, if_statement_index,
             next_statement_first_node, loop_condition_node, condition_node,
             else_last_node, current_context_type)
    ELSE S

handle_if_else_reconnect(S, if_last_node, else_last_node, if_has_return, else_has_return, condition_node, owner, if_statement_index, next_statement_first_node, loop_condition_node, current_context_type) ==
    LET reconnect_key == <<if_last_node.id, else_last_node.id>>
    IN IF reconnect_key \in S.processed_if_else THEN S
       ELSE reconnect_if_open(
                reconnect_if_open(
                    [S EXCEPT !.processed_if_else = @ \cup {reconnect_key}],
                    if_last_node, if_has_return, owner, if_statement_index,
                    next_statement_first_node, loop_condition_node, condition_node,
                    else_last_node, current_context_type),
                else_last_node, else_has_return, owner, if_statement_index,
                next_statement_first_node, loop_condition_node, condition_node,
                else_last_node, current_context_type)

\* _find_nested_condition_node: the start of the last connection scanned
\* that enters if_last_node from above, the scan stopping at a decision
_find_nested_condition_node(S, p, parent_condition_node) ==
    LET if_last_node == Get(S.if_info, p, NoInfo).last_node
        enters(i) == /\ S.conns[i].end_item_id = if_last_node.id
                     /\ S.conns[i].end_point_type = "up"
        src(i) == get_node_by_id(S, S.conns[i].start_item_id)
        pick(E, D) == IF D # {} THEN CHOOSE i \in D : \A j \in D : i <= j
                      ELSE CHOOSE i \in E : \A j \in E : j <= i
        found(E) == IF IsNode(if_last_node) /\ E # {}
                    THEN src(pick(E, {i \in E : IsNode(src(i)) /\ src(i).type = "decision"}))
                    ELSE NoNode
        or_parent(n) == IF IsNode(n) THEN n ELSE parent_condition_node
    IN or_parent(found({i \in 1..Len(S.conns) : enters(i)}))

\* _find_nested_next_node
_find_nested_next_node(S, p, owner, next_statement_first_node, loop_condition_node) ==
    LET parent_block == BlockOf(S.input_json, owner)
        else_last == Get(S.else_info, p, NoInfo).last_node
        in_block == Len(p) = Len(owner) + 1 /\ SubSeq(p, 1, Len(owner)) = owner
        k == Last(p)
        has_following == \E i \in (k + calculate_skip_from(parent_block, k))..Len(parent_block) :
                             parent_block[i].tag # "block"
        default == IF IsNode(next_statement_first_node) THEN next_statement_first_node
                   ELSE loop_condition_node
    IN IF in_block /\ has_following /\ IsNode(else_last)
          /\ IsNode(next_statement_first_node)
          /\ next_statement_first_node.id = else_last.id /\ IsNode(loop_condition_node)
       THEN loop_condition_node
       ELSE default

\* _determine_nested_context_type
_determine_nested_context_type(S, p, loop_condition_node, parent_condition_node) ==
    IF Has(S.ctx_type, p) THEN S.ctx_type[p]
    ELSE IF IsNode(loop_condition_node) \/ IsNode(parent_condition_node) THEN "loop"
    ELSE "main"

RECURSIVE find_all_nested_if_else(_, _)
RECURSIVE find_all_in_body(_, _, _)
\* utils.find_all_nested_if_else: the annotated if-else statements at or
\* below p, in pre-order
find_all_nested_if_else(S, p) ==
    LET s == StmtAt(S.input_json, p)
        self == IF s.tag \in {"condition", "branch"}
                   /\ (Has(S.if_info, p) \/ Has(S.else_info, p))
                THEN <<p>> ELSE <<>>
    IN self \o (IF HasChildren(s) THEN find_all_in_body(S, p, 1) ELSE <<>>)
find_all_in_body(S, p, k) ==
    IF k > Len(StmtAt(S.input_json, p).body) THEN <<>>
    ELSE find_all_nested_if_else(S, p \o <<k>>) \o find_all_in_body(S, p, k + 1)

RECURSIVE handle_nested_if_else_reconnect(_, _, _, _, _, _, _)
RECURSIVE _process_deeply_nested_from(_, _, _, _, _, _, _, _)

\* _process_single_nested_if_else: _find_nested_parent_block is handed the
\* parent block (a list) where it expects a statement, finds nothing, and
\* the reconnect runs on the outer block with index -1
single_nested_with(S, np, owner, nested_next_node, loop_condition_node, nested_condition_node, nested_cond_node) ==
    LET nested_if_info == Get(S.if_info, np, NoInfo)
        nested_else_info == Get(S.else_info, np, NoInfo)
    IN handle_nested_if_else_reconnect(
           handle_if_else_reconnect(S, nested_if_info.last_node,
               nested_else_info.last_node, nested_if_info.has_return,
               nested_else_info.has_return, nested_cond_node, owner, 0,
               nested_next_node, loop_condition_node,
               _determine_nested_context_type(S, np, loop_condition_node,
                                              nested_condition_node)),
           np, owner, 0, nested_next_node, loop_condition_node, nested_cond_node)

_process_single_nested_if_else(S, np, owner, nested_next_node, loop_condition_node, nested_condition_node) ==
    single_nested_with(S, np, owner, nested_next_node, loop_condition_node,
        nested_condition_node,
        _find_nested_condition_node(S, np, nested_condition_node))

\* the loop of _process_deeply_nested_if_else over the list found at entry
_process_deeply_nested_from(S, list, k, p, owner, nested_next_node, loop_condition_node, nested_condition_node) ==
    IF k > Len(list) THEN S
    ELSE _process_deeply_nested_from(
             IF list[k] = p THEN S
             ELSE _process_single_nested_if_else(S, list[k], owner, nested_next_node,
                      loop_condition_node, nested_condition_node),
             list, k + 1, p, owner, nested_next_node, loop_condition_node,
             nested_condition_node)

_process_deeply_nested_if_else(S, p, owner, nested_next_node, loop_condition_node, nested_condition_node) ==
    _process_deeply_nested_from(S, find_all_nested_if_else(S, p), 1, p, owner,
                                nested_next_node, loop_condition_node,
                                nested_condition_node)

\* handle_nested_if_else_reconnect once the nested condition node and the
\* nested next node are found
nested_reconnect_with(S, p, owner, if_statement_index, loop_condition_node, parent_condition_node, nested_condition_node, nested_next_node) ==
    LET if_block_info == Get(S.if_info, p, NoInfo)
        else_block_info == Get(S.else_info, p, NoInfo)
    IN _process_deeply_nested_if_else(
           IF Has(S.if_info, p) \/ Has(S.else_info, p)
           THEN handle_if_else_reconnect(S, if_block_info.last_node,
                    else_block_info.last_node, if_block_info.has_return,
                    else_block_info.has_return, nested_condition_node, owner,
                    if_statement_index, nested_next_node, loop_condition_node,
                    _determine_nested_context_type(S, p, loop_condition_node,
                                                   parent_condition_node))
           ELSE S,
           p, owner, nested_next_node, loop_condition_node, nested_condition_node)

handle_nested_if_else_reconnect(S, p, owner, if_statement_index, next_statement_first_node, loop_condition_node, parent_condition_node) ==
    IF StmtAt(S.input_json, p).tag \notin {"condition", "branch"} THEN S
    ELSE nested_reconnect_with(S, p, owner, if_statement_index, loop_condition_node,
             parent_condition_node,
             _find_nested_condition_node(S, p, parent_condition_node),
             _find_nested_next_node(S, p, owner, next_statement_first_node,
                                    loop_condition_node))

(***************************************************************************)
(* FlowchartConverter._process_pending_reconnects.                         *)
(***************************************************************************)
RECURSIVE find_next_from(_, _, _, _)
\* the scan of _find_next_statement_node: only top-level statements have a
\* registered first node, and the scan goes on only past the else block's
\* last node
find_next_from(S, owner, next_idx, else_last_node) ==
    LET parent_block == BlockOf(S.input_json, owner)
    IN IF next_idx > Len(parent_block) THEN NoNode
       ELSE IF parent_block[next_idx].tag = "block"
       THEN find_next_from(S, owner, next_idx + 1, else_last_node)
       ELSE IF owner # <<>> THEN NoNode
       ELSE LET candidate_node == get_statement_first_node(S, next_idx)
            IN IF ~IsNode(candidate_node) THEN NoNode
               ELSE IF IsNode(else_last_node) /\ candidate_node.id = else_last_node.id
               THEN find_next_from(S, owner, next_idx + 1, else_last_node)
               ELSE candidate_node

_calculate_skip_count(parent_block, k) ==
    IF parent_block[k].tag \in {"condition", "branch"}
    THEN calculate_skip_from(parent_block, k) ELSE 0

_find_next_statement_node(S, info) ==
    LET owner == info.parent_block
        k == info.if_statement_index
        else_last_node == Get(S.else_info, owner \o <<k>>, NoInfo).last_node
    IN find_next_from(S, owner, k + _calculate_skip_count(BlockOf(S.input_json, owner), k),
                      else_last_node)

\* _find_loop_in_parent_block: the block is the body of a top-level loop
_find_loop_in_parent_block(S, owner) ==
    IF Len(owner) = 1 /\ IsLoopish(S.input_json[owner[1]])
       /\ S.input_json[owner[1]].btype \in {"for_block", "while_block", "while_true_block"}
    THEN LET a == get_loop_condition_node(S, owner)
         IN IF IsNode(a) THEN a ELSE get_statement_first_node(S, owner[1])
    ELSE NoNode

RECURSIVE _find_loop_before_statement(_, _, _)
_find_loop_before_statement(S, owner, prev_idx) ==
    LET parent_block == BlockOf(S.input_json, owner)
    IN IF prev_idx < 1 THEN NoNode
       ELSE IF OrigHasFor(parent_block[prev_idx]) \/ OrigHasWhile(parent_block[prev_idx])
               \/ parent_block[prev_idx].tag = "loop"
       THEN LET a == get_loop_condition_node(S, owner \o <<prev_idx>>)
            IN IF ~IsNode(a) /\ owner = <<>> THEN get_statement_first_node(S, prev_idx)
               ELSE a
       ELSE _find_loop_before_statement(S, owner, prev_idx - 1)

_get_loop_condition_node_for_reconnect(S, info) ==
    LET a == IF info.parent_statement # NoPath
             THEN get_loop_condition_node(S, info.parent_statement) ELSE NoNode
        b == IF ~IsNode(a) /\ info.parent_block # <<>>
             THEN _find_loop_in_parent_block(S, info.parent_block) ELSE a
    IN IF IsNode(info.loop_condition_node) THEN info.loop_condition_node
       ELSE IF IsNode(b) THEN b
       ELSE _find_loop_before_statement(S, info.parent_block, info.if_statement_index - 1)

\* the body of the loop of _process_pending_reconnects
reconnect_pending(S, info, next_statement_first_node, loop_condition_node) ==
    handle_nested_if_else_reconnect(
        handle_if_else_reconnect(S, info.if_last_node, info.else_last_node,
            info.if_has_return, info.else_has_return, info.condition_node,
            info.parent_block, info.if_statement_index,
            next_statement_first_node, loop_condition_node, info.context_type),
        info.parent_block \o <<info.if_statement_index>>,
        info.parent_block, info.if_statement_index,
        next_statement_first_node, loop_condition_node, info.condition_node)

RECURSIVE process_pending_from(_, _)
process_pending_from(S, k) ==
    IF k > Len(S.pending_if_else_reconnects) THEN S
    ELSE process_pending_from(
             reconnect_pending(S, S.pending_if_else_reconnects[k],
                 _find_next_statement_node(S, S.pending_if_else_reconnects[k]),
                 _get_loop_condition_node_for_reconnect(S,
                     S.pending_if_else_reconnects[k])),
             k + 1)

_process_pending_reconnects(S) == process_pending_from(S, 1)

(***************************************************************************)
(* FlowchartConverter._process_break_statements.                           *)
(***************************************************************************)
LoopBlockTypes == {"for_block", "for_true_block", "while_block", "while_true_block"}

RECURSIVE _collect_break_statements(_, _, _, _)
\* the break statements of the block owned by owner from position k on, in
\* pre-order, each with its parent loop
_collect_break_statements(S, owner, k, current_loop) ==
    LET block == BlockOf(S.input_json, owner)
    IN IF k > Len(block) THEN <<>>
       ELSE LET stmt == block[k]
                p == owner \o <<k>>
                self == IF Has(S.break_info, p)
                        THEN <<[statement |-> p,
                                parent_loop |-> IF S.break_info[p].ploop # NoPath
                                                THEN S.break_info[p].ploop
                                                ELSE current_loop]>>
                        ELSE <<>>
                in_loop == IF (stmt.tag \in {"loop", "condition"} \/ OrigHasFor(stmt)
                               \/ OrigHasWhile(stmt)) /\ stmt.btype \in LoopBlockTypes
                           THEN _collect_break_statements(S, p, 1, p) ELSE <<>>
                in_branch == IF stmt.btype \in {"if_block", "else_block"}
                             THEN _collect_break_statements(S, p, 1, current_loop) ELSE <<>>
            IN self \o in_loop \o in_branch
                    \o _collect_break_statements(S, owner, k + 1, current_loop)

_find_node_by_text(S, text) ==
    LET hits == SelectIdx(S.nodes, 1, LAMBDA n : n.text = text)
    IN IF hits = <<>> THEN NoNode ELSE S.nodes[hits[1]]

\* _find_next_in_block: the first statement after the target in its block
_find_next_in_block(S, tp, owner, is_top_level) ==
    LET block == BlockOf(S.input_json, owner)
        k == Last(tp)
        following == {i \in (k + 1)..Len(block) : block[i].tag # "block"}
        next_idx == CHOOSE i \in following : \A j \in following : i <= j
    IN IF Front(tp) # owner \/ following = {} THEN NoNode
       ELSE IF is_top_level THEN get_statement_first_node(S, next_idx)
       ELSE _find_node_by_text(S, block[next_idx].text)

RECURSIVE _find_next_in_nested_blocks(_, _, _, _)
_find_next_in_nested_blocks(S, tp, owner, k) ==
    LET block == BlockOf(S.input_json, owner)
    IN IF k > Len(block) THEN NoNode
       ELSE LET p == owner \o <<k>>
                here == IF block[k].btype \in LoopBlockTypes \cup {"if_block", "else_block"}
                        THEN LET r == _find_next_in_block(S, tp, p, FALSE)
                             IN IF IsNode(r) THEN r
                                ELSE _find_next_in_nested_blocks(S, tp, p, 1)
                        ELSE NoNode
            IN IF IsNode(here) THEN here
               ELSE _find_next_in_nested_blocks(S, tp, owner, k + 1)

_find_statement_after_loop(S, tp) ==
    IF tp = NoPath THEN NoNode
    ELSE LET r == _find_next_in_block(S, tp, <<>>, TRUE)
         IN IF IsNode(r) THEN r ELSE _find_next_in_nested_blocks(S, tp, <<>>, 1)

RECURSIVE _find_parent_if_else_of_loop(_, _, _, _)
\* the statement whose if or else block holds the loop, searched through
\* if and else blocks only
_find_parent_if_else_of_loop(S, tp, owner, k) ==
    LET block == BlockOf(S.input_json, owner)
    IN IF k > Len(block) THEN NoPath
       ELSE LET p == owner \o <<k>>
                here == IF block[k].btype \in {"if_block", "else_block"}
                        THEN IF Front(tp) = p THEN p
                             ELSE _find_parent_if_else_of_loop(S, tp, p, 1)
                        ELSE NoPath
            IN IF here # NoPath THEN here
               ELSE _find_parent_if_else_of_loop(S, tp, owner, k + 1)

_find_statement_after_loop_with_backtrack(S, loop_statement) ==
    IF loop_statement = NoPath THEN NoNode
    ELSE LET r == _find_statement_after_loop(S, loop_statement)
             parent_if_else == _find_parent_if_else_of_loop(S, loop_statement, <<>>, 1)
         IN IF IsNode(r) THEN r
            ELSE IF parent_if_else # NoPath
            THEN _find_statement_after_loop(S, parent_if_else)
            ELSE NoNode

RECURSIVE process_breaks_from(_, _, _)
process_breaks_from(S, breaks, k) ==
    IF k > Len(breaks) THEN S
    ELSE LET break_node == S.break_info[breaks[k].statement].node
             next_after_loop ==
                 _find_statement_after_loop_with_backtrack(S, breaks[k].parent_loop)
             S1 == IF IsNode(next_after_loop)
                   THEN add_connection(S, break_node.id, "left", next_after_loop.id, "up")
                   ELSE IF IsNode(S.end_node)
                   THEN add_connection(S, break_node.id, "left", S.end_node.id, "up")
                   ELSE S
         IN process_breaks_from(S1, breaks, k + 1)

_process_break_statements(S) ==
    process_breaks_from(S, _collect_break_statements(S, <<>>, 1, NoPath), 1)

(***************************************************************************)
(* Orphan pass: _connect_orphan_nodes_generic and _find_target_generic.    *)
(* Scores are floats in the code: y_diff times 0.4, 0.7, 0.5, 0.8 or 1.0.  *)
(* Coordinates are multiples of 5, and for those every product is exact    *)
(* in IEEE double except y * 0.7, which is rounded below the exact value   *)
(* for the y of Rounds07Down.  A score is kept as twice its exact value    *)
(* in tenths, less one when the double is below the exact value, which     *)
(* orders scores as the doubles are ordered.                               *)
(***************************************************************************)
Rounds07Down(y) ==
    y \in {45, 85, 90, 165, 170, 175, 180, 325, 330, 335, 340, 345, 350, 355, 360, 365}

ScoreKey(y_diff, tenths) ==
    2 * y_diff * tenths - (IF tenths = 7 /\ Rounds07Down(y_diff) THEN 1 ELSE 0)

RECURSIVE SortCands(_)
\* list.sort(key=score): stable, so equal scores stay in node order
SortCands(C) ==
    IF C = {} THEN <<>>
    ELSE LET m == CHOOSE c \in C : \A d \in C :
                      c.score < d.score \/ (c.score = d.score /\ c.i <= d.i)
         IN <<m>> \o SortCands(C \ {m})

\* some incoming connection leaves a decision node by right or down
FromDecision(S, node_id) ==
    \E k \in 1..Len(S.conns) :
        /\ S.conns[k].end_item_id = node_id
        /\ S.conns[k].start_point_type \in {"right", "down"}
        /\ get_node_by_id(S, S.conns[k].start_item_id).type = "decision"

is_parallel_branch(S, node_id) ==
    \/ FromDecision(S, node_id)
    \/ \E k \in 1..Len(S.conns) :
          /\ S.conns[k].end_item_id = node_id
          /\ get_node_by_id(S, S.conns[k].start_item_id).type = "process"
          /\ FromDecision(S, S.conns[k].start_item_id)

HasOut(S, node_id, point) ==
    \E k \in 1..Len(S.conns) :
        S.conns[k].start_item_id = node_id /\ S.conns[k].start_point_type = point

intermediate_nodes(S) ==
    {S.nodes[j].id : j \in {i \in 1..Len(S.nodes) :
        /\ Len(get_connections_to_node(S, S.nodes[i].id)) >= 2
        /\ HasOut(S, S.nodes[i].id, "down")}}

convergence_nodes_with_right(S) ==
    {S.nodes[j].id : j \in {i \in 1..Len(S.nodes) :
        /\ Len(get_connections_to_node(S, S.nodes[i].id)) >= 2
        /\ HasOut(S, S.nodes[i].id, "right")}}

down_candidates(S, orphan) ==
    LET inter == intermediate_nodes(S)
        orphan_in_main == Abs(orphan.x - base_x) < 100
        ok(i) ==
            LET node == S.nodes[i]
                y_diff == node.y - orphan.y
            IN /\ node.id # orphan.id
               /\ node.text \notin {TextStart, TextEnd}
               /\ 0 < y_diff /\ y_diff <= 500
               /\ ~(node.id \in inter /\ y_diff < 200)
               /\ ~(y_diff < 150 /\ is_parallel_branch(S, node.id))
        cand(i) ==
            LET node == S.nodes[i]
                y_diff == node.y - orphan.y
                x_diff == Abs(node.x - orphan.x)
                is_main == Abs(node.x - base_x) < 50
                tenths == IF is_main /\ orphan_in_main THEN 4
                          ELSE IF is_main THEN 7
                          ELSE IF x_diff < 250 THEN 5
                          ELSE IF x_diff < 500 THEN 8
                          ELSE 10
            IN [i |-> i, node |-> node, score |-> ScoreKey(y_diff, tenths), y_diff |-> y_diff]
    IN SortCands({cand(i) : i \in {j \in 1..Len(S.nodes) : ok(j)}})

right_candidates(S, orphan) ==
    LET ok(i) ==
            LET node == S.nodes[i]
                y_diff == node.y - orphan.y
            IN /\ node.id # orphan.id
               /\ node.text \notin {TextStart, TextEnd}
               /\ y_diff < 0 /\ node.type = "decision"
               /\ 200 < Abs(y_diff) /\ Abs(y_diff) < 1000
               /\ HasLoopKeyword(node.text)
        cand(i) ==
            LET node == S.nodes[i]
                y_diff == node.y - orphan.y
            IN [i |-> i, node |-> node, score |-> ScoreKey(Abs(y_diff), 5), y_diff |-> y_diff]
    IN SortCands({cand(i) : i \in {j \in 1..Len(S.nodes) : ok(j)}})

from_decision_right(S, orphan_id) ==
    \E k \in 1..Len(S.conns) :
        /\ S.conns[k].end_item_id = orphan_id
        /\ get_node_by_id(S, S.conns[k].start_item_id).type = "decision"
        /\ S.conns[k].start_point_type = "right"

NoTargetGeneric == [node |-> NoNode, conn_type |-> "none"]

\* the choice between the best down candidate and the best loop above,
\* for an orphan entered from a decision's right port
choose_down_or_right(S, orphan, down, right) ==
    LET conv == convergence_nodes_with_right(S)
        best_down == down[1]
        best_down_y == best_down.y_diff
        go_down == [node |-> best_down.node, conn_type |-> "down"]
        go_right == [node |-> right[1].node, conn_type |-> "right"]
        other_down == SelectIdx(down, 2, LAMBDA c : c.node.id \notin conv)
        best_down_x_diff == Abs(best_down.node.x - orphan.x)
        down_in_main == Abs(best_down.node.x - base_x) < 100
    IN IF best_down.node.id \in conv /\ best_down_y > 100
       THEN IF other_down # <<>> /\ down[other_down[1]].y_diff < 300
            THEN go_right ELSE go_down
       ELSE IF best_down_y < 150 THEN go_down
       ELSE IF best_down_y < 300
       THEN IF best_down.node.type \in {"process", "input"}
            THEN IF down_in_main /\ best_down_y < 250 THEN go_down
                 ELSE IF best_down_x_diff < 700 THEN go_down
                 ELSE go_right
            ELSE IF best_down_x_diff < 300 THEN go_down ELSE go_right
       ELSE go_right

_find_target_generic(S, orphan) ==
    LET down == down_candidates(S, orphan)
        right == right_candidates(S, orphan)
    IN IF from_decision_right(S, orphan.id)
       THEN IF down # <<>> /\ right # <<>>
            THEN choose_down_or_right(S, orphan, down, right)
            ELSE IF right # <<>> THEN [node |-> right[1].node, conn_type |-> "right"]
            ELSE IF down # <<>> THEN [node |-> down[1].node, conn_type |-> "down"]
            ELSE NoTargetGeneric
       ELSE IF down # <<>> THEN [node |-> down[1].node, conn_type |-> "down"]
            ELSE IF right # <<>> THEN [node |-> right[1].node, conn_type |-> "right"]
            ELSE NoTargetGeneric

RECURSIVE connect_orphans_from(_, _, _)
connect_orphans_from(S, orphans, k) ==
    IF k > Len(orphans) THEN S
    ELSE LET orphan == S.nodes[orphans[k]]
             t == _find_target_generic(S, orphan)
             S1 == IF IsNode(t.node) /\ t.node.id # orphan.id
                   THEN add_connection(S, orphan.id, t.conn_type, t.node.id, "up")
                   ELSE S
         IN connect_orphans_from(S1, orphans, k + 1)

\* the orphans are collected once, before any of them is connected
_connect_orphan_nodes_generic(S) ==
    LET orphans == SelectIdx(S.nodes, 1, LAMBDA n :
                       /\ n.text \notin {TextStart, TextEnd}
                       /\ n.text \notin {TextBreak, TextContinue}
                       /\ get_connections_from_node(S, n.id) = <<>>)
    IN connect_orphans_from(S, orphans, 1)

(***************************************************************************)
(* _fix_obviously_wrong_connections.  The score y_diff + x_diff * 0.5 is   *)
(* kept doubled (2 * y_diff + x_diff), and so are its thresholds.          *)
(***************************************************************************)
better_target(S, node) ==
    LET ok(i) ==
            LET candidate == S.nodes[i]
                y_diff == candidate.y - node.y
            IN /\ candidate.id # node.id
               /\ candidate.text \notin {TextStart, TextEnd}
               /\ candidate.type \in {"process", "input"}
               /\ 0 < y_diff /\ y_diff <= 250
               /\ Abs(candidate.x - node.x) <= 700
        score(i) == 2 * (S.nodes[i].y - node.y) + Abs(S.nodes[i].x - node.x)
        C == {i \in 1..Len(S.nodes) : ok(i)}
    IN IF C = {} THEN [node |-> NoNode, score |-> 0]
       ELSE LET b == CHOOSE i \in C : \A j \in C :
                        score(i) < score(j) \/ (score(i) = score(j) /\ i <= j)
            IN [node |-> S.nodes[b], score |-> score(b)]

\* the (node, conn, better_target) entry of nodes_to_fix for node, if any
wrong_connection(S, node) ==
    LET outgoing == get_connections_from_node(S, node.id)
        conn == outgoing[1]
        target_node == get_node_by_id(S, conn.end_item_id)
        y_diff_to_target == target_node.y - node.y
        b == better_target(S, node)
        max_allowed_score == IF b.node.y - node.y < 150 THEN 600 ELSE 500
        none == [fix |-> FALSE, node |-> node, conn |-> 0, target |-> NoNode]
    IN IF node.text \in {TextStart, TextEnd, TextBreak, TextContinue} THEN none
       ELSE IF ~from_decision_right(S, node.id) THEN none
       ELSE IF Len(outgoing) # 1 THEN none
       ELSE IF conn.start_point_type # "right" THEN none
       ELSE IF ~IsNode(target_node) THEN none
       ELSE IF y_diff_to_target >= 0 THEN none
       ELSE IF Abs(y_diff_to_target) < 600 /\ HasLoopKeyword(target_node.text) THEN none
       ELSE IF IsNode(b.node) /\ b.score <= 2 * max_allowed_score
       THEN [fix |-> TRUE, node |-> node, conn |-> conn, target |-> b.node]
       ELSE none

RECURSIVE fix_wrong_from(_, _, _)
fix_wrong_from(S, nodes_to_fix, k) ==
    IF k > Len(nodes_to_fix) THEN S
    ELSE LET f == nodes_to_fix[k]
             S1 == remove_connection(S, f.conn)
         IN fix_wrong_from(add_connection(S1, f.node.id, "down", f.target.id, "up"),
                           nodes_to_fix, k + 1)

_fix_obviously_wrong_connections(S) ==
    LET all == [i \in 1..Len(S.nodes) |-> wrong_connection(S, S.nodes[i])]
        k == SelectIdx(all, 1, LAMBDA f : f.fix)
    IN fix_wrong_from(S, [i \in 1..Len(k) |-> all[k[i]]], 1)

(***************************************************************************)
(* _fix_down_to_outer_layer.  target_from_decision, target_is_convergence  *)
(* and x_dist are computed by the code and never read.                     *)
(***************************************************************************)
better_right(S, node) ==
    LET ok(i) ==
            LET candidate == S.nodes[i]
                cand_y_diff == candidate.y - node.y
            IN /\ candidate.id # node.id
               /\ candidate.type = "decision"
               /\ cand_y_diff < 0
               /\ 200 < Abs(cand_y_diff) /\ Abs(cand_y_diff) < 800
               /\ HasLoopKeyword(candidate.text)
        distance(i) == Abs(S.nodes[i].y - node.y)
        C == {i \in 1..Len(S.nodes) : ok(i)}
    IN IF C = {} THEN NoNode
       ELSE S.nodes[CHOOSE i \in C : \A j \in C :
               distance(i) < distance(j) \/ (distance(i) = distance(j) /\ i <= j)]

\* the (node, conn, better_right) entry of nodes_to_fix for node, if any
outer_layer_connection(S, node) ==
    LET outgoing == get_connections_from_node(S, node.id)
        conn == outgoing[1]
        target == get_node_by_id(S, conn.end_item_id)
        y_diff == target.y - node.y
        target_in_main == Abs(target.x - base_x) < 100
        b == better_right(S, node)
        none == [fix |-> FALSE, node |-> node, conn |-> 0, target |-> NoNode]
    IN IF node.text \in {TextStart, TextEnd, TextBreak, TextContinue} THEN none
       ELSE IF ~from_decision_right(S, node.id) THEN none
       ELSE IF Len(outgoing) # 1 THEN none
       ELSE IF conn.start_point_type # "down" THEN none
       ELSE IF target.type \notin {"process", "input"} THEN none
       ELSE IF y_diff > 100 /\ target_in_main /\ IsNode(b)
       THEN [fix |-> TRUE, node |-> node, conn |-> conn, target |-> b]
       ELSE none

RECURSIVE fix_outer_from(_, _, _)
fix_outer_from(S, nodes_to_fix, k) ==
    IF k > Len(nodes_to_fix) THEN S
    ELSE LET f == nodes_to_fix[k]
             S1 == remove_connection(S, f.conn)
         IN fix_outer_from(add_connection(S1, f.node.id, "right", f.target.id, "up"),
                           nodes_to_fix, k + 1)

_fix_down_to_outer_layer(S) ==
    LET all == [i \in 1..Len(S.nodes) |-> outer_layer_connection(S, S.nodes[i])]
        k == SelectIdx(all, 1, LAMBDA f : f.fix)
    IN fix_outer_from(S, [i \in 1..Len(k) |-> all[k[i]]], 1)

(***************************************************************************)
(* Input trees, as CppToJsonConverter.parse_units builds them.             *)
(***************************************************************************)
NoBlock(tag, orig, text) ==
    [tag |-> tag, orig |-> orig, text |-> text, btype |-> "none", body |-> <<>>]
WithBlock(tag, orig, text, btype, body) ==
    [tag |-> tag, orig |-> orig, text |-> text, btype |-> btype, body |-> body]

Stmt(t) == NoBlock("statement", "stmt", <<"", t>>)
\* return v;
ReturnOf(v) == NoBlock("statement", "stmt", <<"return", v>>)
ReturnStmt == ReturnOf("")
BreakStmt == NoBlock("statement", "stmt", TextBreak)
ContinueStmt == NoBlock("statement", "stmt", TextContinue)
Brace == NoBlock("block", "brace", <<"", "{">>)

\* if (c) { body }; an empty pair of braces still gives an if_block
IfStmt(c, body) == WithBlock("branch", "if", <<"if", c>>, "if_block", body)
\* if (c) followed by a single unbraced statement: one unit without children
IfUnit(c) == NoBlock("branch", "if", <<"if", c>>)
ElseStmt(body) == WithBlock("branch", "else", TextElse, "else_block", body)
\* else if (c) { body }: the parser gives the clause an else_block
ElseIfStmt(c, body) == WithBlock("branch", "elseif", <<"elif", c>>, "else_block", body)
\* while (c) { body }; an empty or missing body gives no child block
WhileStmt(c, body) ==
    IF body = <<>> THEN NoBlock("loop", "while", <<"while", c>>)
    ELSE WithBlock("loop", "while", <<"while", c>>, "while_true_block", body)
ForStmt(c, body) ==
    IF body = <<>> THEN NoBlock("condition", "for", <<"for", c>>)
    ELSE WithBlock("condition", "for", <<"for", c>>, "for_block", body)

\* a function body: the statements between the braces of main
Main(stmts) == <<Brace>> \o stmts \o <<Brace>>

(***************************************************************************)
(* The inputs of convert: every function body of at most MaxTop            *)
(* statements whose blocks nest at most MaxDepth deep and hold at most     *)
(* MaxLen statements, and the scenarios below.                             *)
(***************************************************************************)
MaxTop == 2
MaxLen == 1
MaxDepth == 1

Conds == {"x", "i<n"}
Leaves == {Stmt("a"), Stmt("b"), ReturnStmt, BreakStmt, ContinueStmt}

SeqsUpTo(A, n) == UNION {[1..k -> A] : k \in 0..n}

\* an else directly follows an if
WellFormed(b) ==
    \A i \in 1..Len(b) : b[i].orig = "else" => (i > 1 /\ b[i - 1].orig = "if")

Blocks(A, n) == {b \in SeqsUpTo(A, n) : WellFormed(b)}

Compound(B) ==
    {IfStmt(c, b) : c \in Conds, b \in B} \cup {IfUnit(c) : c \in Conds}
    \cup {ElseStmt(b) : b \in B}
    \cup {WhileStmt(c, b) : c \in Conds, b \in B}
    \cup {ForStmt(c, b) : c \in Conds, b \in B}

RECURSIVE Stmts(_)
Stmts(d) == IF d = 0 THEN Leaves ELSE Leaves \cup Compound(Blocks(Stmts(d - 1), MaxLen))

Generated == {Main(b) : b \in Blocks(Stmts(MaxDepth), MaxTop)}

\* if (x) { a; } b;
ScenarioA == Main(<<IfStmt("x", <<Stmt("a")>>), Stmt("b")>>)
\* while (x) { a; if (y) break; b; } c;  the parser keeps "if (y) break;" as
\* one unit without children
ScenarioB ==
    Main(<<WhileStmt("x", <<Stmt("a"), IfUnit("y"), Stmt("b")>>), Stmt("c")>>)
\* while (x) { a; if (y) { break; } b; } c;
ScenarioBBraced ==
    Main(<<WhileStmt("x", <<Stmt("a"), IfStmt("y", <<BreakStmt>>), Stmt("b")>>), Stmt("c")>>)
\* if (x) { return 1; } else { return 2; } z;
ScenarioC ==
    Main(<<IfStmt("x", <<ReturnOf("1")>>), ElseStmt(<<ReturnOf("2")>>), Stmt("z")>>)
\* while (w) { if (x) { for (f) { if (y) continue; } } }
ScenarioD ==
    Main(<<WhileStmt("w", <<IfStmt("x", <<ForStmt("f", <<IfUnit("y")>>)>>)>>)>>)
\* while (w) { if (x) { for (f) { if (y) { continue; } } } }
ScenarioDBraced ==
    Main(<<WhileStmt("w", <<IfStmt("x",
              <<ForStmt("f", <<IfStmt("y", <<ContinueStmt>>)>>)>>)>>)>>)
\* while (x) { a; if (y) { break; } b; } c; if (z) { d; }
LoopThenIf ==
    Main(<<WhileStmt("x", <<Stmt("a"), IfStmt("y", <<BreakStmt>>), Stmt("b")>>), Stmt("c"),
           IfStmt("z", <<Stmt("d")>>)>>)
\* if (i<n) { return; } if (i<n) p; a; if (i<n) q;
UnbracedIfs ==
    Main(<<IfStmt("i<n", <<ReturnStmt>>), IfUnit("i<n"), Stmt("a"), IfUnit("i<n")>>)
\* if (x) { a; } while (y) { b; } c;
IfThenLoop ==
    Main(<<IfStmt("x", <<Stmt("a")>>), WhileStmt("y", <<Stmt("b")>>), Stmt("c")>>)
\* while (w) { while (x) { break; } } a;
NestedBreak ==
    Main(<<WhileStmt("w", <<WhileStmt("x", <<BreakStmt>>)>>), Stmt("a")>>)

Scenarios ==
    {<<>>, ScenarioA, ScenarioB, ScenarioBBraced, ScenarioC, ScenarioD, ScenarioDBraced,
     LoopThenIf, UnbracedIfs, IfThenLoop, NestedBreak}

\* if (x) { a; } else if (y) { b; } else { a; } b;
IfElseIfElse ==
    Main(<<IfStmt("x", <<Stmt("a")>>), ElseIfStmt("y", <<Stmt("b")>>),
           ElseStmt(<<Stmt("a")>>), Stmt("b")>>)
\* if (x) { a; } else if (y) { b; } a;
IfElseIf == Main(<<IfStmt("x", <<Stmt("a")>>), ElseIfStmt("y", <<Stmt("b")>>), Stmt("a")>>)
\* while (x) { if (x) { a; } else if (y) { b; } else { a; } } b;
ChainInLoop ==
    Main(<<WhileStmt("x", <<IfStmt("x", <<Stmt("a")>>), ElseIfStmt("y", <<Stmt("b")>>),
                            ElseStmt(<<Stmt("a")>>)>>), Stmt("b")>>)
\* if (x) { if (y) { a; } else { b; } } else { a; } b;
NestedIfElse ==
    Main(<<IfStmt("x", <<IfStmt("y", <<Stmt("a")>>), ElseStmt(<<Stmt("b")>>)>>),
           ElseStmt(<<Stmt("a")>>), Stmt("b")>>)
\* if / else-if / else chains and an if / else nested in an if / else
Chains == {IfElseIfElse, IfElseIf, ChainInLoop, NestedIfElse}

Inputs == Generated \cup Scenarios \cup Chains

(***************************************************************************)
(* The state machine: one converter, and convert as its sequence of steps. *)
(* input is the tree handed to convert, st the converter, cur, cur_y and   *)
(* max_y the locals current_node, current_y and max_y of convert, and      *)
(* item_index the position of its loop over input_json.  returned lists    *)
(* the dictionaries the converter has returned so far, other is a second   *)
(* converter with its own call of convert, and document is the output      *)
(* main assembles; each is used by the specification that needs it.        *)
(***************************************************************************)
\* no second converter has been constructed
NoInstance == [pc |-> "none"]

\* main has not started to assemble its output
NoDocument == [pc |-> "none"]

Init ==
    /\ input = <<>>
    /\ pc = "idle"
    /\ item_index = 1
    /\ st = NewConverter
    /\ cur = NoNode
    /\ cur_y = 0
    /\ max_y = 0
    /\ returned = <<>>
    /\ other = NoInstance
    /\ document = NoDocument

\* a pass of convert that is entered again when it ends
same_pass(p) == p
\* the order of the calls that follow the loop of convert
next_pass(p) ==
    CASE p = "pending" -> "orphans"
      [] p = "orphans" -> "fix_wrong"
      [] p = "fix_wrong" -> "fix_outer"
      [] p = "fix_outer" -> "breaks"
      [] p = "breaks" -> "done"

\* convert is called: reset, start node
Convert ==
    /\ pc = "idle"
    /\ \E tree \in Inputs :
          LET S == convert_start(st, tree)
          IN /\ input' = tree
             /\ st' = S
             /\ cur' = S.start_node
             /\ cur_y' = S.current_y
             /\ max_y' = S.current_y
    /\ item_index' = 1
    /\ pc' = "items"
    /\ UNCHANGED <<returned, other, document>>

\* one turn of the loop over input_json
ProcessItem ==
    /\ pc = "items"
    /\ item_index <= Len(input)
    /\ \E r \in {convert_item(st, item_index, cur, cur_y)} :
          /\ st' = r.S
          /\ cur' = r.node
          /\ cur_y' = r.y
          /\ max_y' = Max(max_y, r.y)
    /\ item_index' = item_index + 1
    /\ UNCHANGED <<input, pc, returned, other, document>>

CreateEndNode ==
    /\ pc = "items"
    /\ item_index > Len(input)
    /\ st' = _create_end_node(st, cur, max_y)
    /\ pc' = "pending"
    /\ UNCHANGED <<input, item_index, cur, cur_y, max_y, returned, other, document>>

ProcessPendingReconnects ==
    /\ pc = "pending"
    /\ st' = _process_pending_reconnects(st)
    /\ pc' = next_pass(pc)
    /\ UNCHANGED <<input, item_index, cur, cur_y, max_y, returned, other, document>>

ConnectOrphanNodes ==
    /\ pc = "orphans"
    /\ st' = _connect_orphan_nodes_generic(st)
    /\ pc' = next_pass(pc)
    /\ UNCHANGED <<input, item_index, cur, cur_y, max_y, returned, other, document>>

FixObviouslyWrongConnections ==
    /\ pc = "fix_wrong"
    /\ st' = _fix_obviously_wrong_connections(st)
    /\ pc' = next_pass(pc)
    /\ UNCHANGED <<input, item_index, cur, cur_y, max_y, returned, other, document>>

FixDownToOuterLayer ==
    /\ pc = "fix_outer"
    /\ st' = _fix_down_to_outer_layer(st)
    /\ pc' = next_pass(pc)
    /\ UNCHANGED <<input, item_index, cur, cur_y, max_y, returned, other, document>>

\* the last pass; convert then returns _build_output()
ProcessBreakStatements ==
    /\ pc = "breaks"
    /\ st' = _process_break_statements(st)
    /\ pc' = next_pass(pc)
    /\ UNCHANGED <<input, item_index, cur, cur_y, max_y, returned, other, document>>

Next ==
    \/ Convert
    \/ ProcessItem
    \/ CreateEndNode
    \/ ProcessPendingReconnects
    \/ ConnectOrphanNodes
    \/ FixObviouslyWrongConnections
    \/ FixDownToOuterLayer
    \/ ProcessBreakStatements

Spec == Init /\ [][Next]_vars

\* items and connections of the dictionary _build_output returns
Returned == pc = "done"

(***************************************************************************)
(* The graph held by the converter, as the properties below read it.       *)
(***************************************************************************)
NodeIndices == 1..Len(st.nodes)
ConnIndices == 1..Len(st.conns)
OutConns(id) == {i \in ConnIndices : st.conns[i].start_item_id = id}
InConns(id) == {i \in ConnIndices : st.conns[i].end_item_id = id}
Edge(a, b) ==
    \E i \in ConnIndices : st.conns[i].start_item_id = a /\ st.conns[i].end_item_id = b
\* the connections leaving a by the given port
PortConns(a, port) == {i \in OutConns(a) : st.conns[i].start_point_type = port}
\* a has connections on the port, and all of them end at b
PortGoesTo(a, port, b) ==
    /\ PortConns(a, port) # {}
    /\ \A i \in PortConns(a, port) : st.conns[i].end_item_id = b
\* node a has exactly one outgoing connection, and it ends at a node of T
OnlyEdgeInto(a, T) ==
    /\ Cardinality(OutConns(a)) = 1
    /\ \A i \in OutConns(a) : st.conns[i].end_item_id \in T
EndIds == {st.nodes[i].id : i \in {j \in NodeIndices : st.nodes[j].type = "end"}}

\* C1: the returned graph has exactly one node of type start, and that node
\* has no incoming connection and exactly one outgoing connection.
OneStartNode ==
    Returned =>
        /\ Cardinality({i \in NodeIndices : st.nodes[i].type = "start"}) = 1
        /\ \A i \in NodeIndices :
               st.nodes[i].type = "start" =>
                   /\ InConns(st.nodes[i].id) = {}
                   /\ Cardinality(OutConns(st.nodes[i].id)) = 1

\* C2: once the orphan pass has run, and after each of the passes that delete
\* connections, and in the returned graph, every node other than the start
\* node has an incoming connection.
NoOrphans ==
    pc \in {"fix_wrong", "fix_outer", "breaks", "done"} =>
        \A i \in NodeIndices :
            st.nodes[i].type # "start" => InConns(st.nodes[i].id) # {}

\* C3: in the returned graph every process or input node that is neither a
\* break node nor a continue node has exactly one outgoing connection.
ProcessNodesHaveOneNext ==
    Returned =>
        \A i \in NodeIndices :
            (/\ st.nodes[i].type \in {"process", "input"}
             /\ st.nodes[i].text \notin {TextBreak, TextContinue})
            => Cardinality(OutConns(st.nodes[i].id)) = 1

\* C4: in the returned graph every decision node has exactly two outgoing
\* connections, one leaving right with the label yes and one leaving down
\* with the label no.
DecisionsHaveTwoPorts ==
    Returned =>
        \A i \in NodeIndices :
            st.nodes[i].type = "decision" =>
                /\ Cardinality(OutConns(st.nodes[i].id)) = 2
                /\ \E j \in OutConns(st.nodes[i].id) :
                       st.conns[j].start_point_type = "right" /\ st.conns[j].label = "yes"
                /\ \E j \in OutConns(st.nodes[i].id) :
                       st.conns[j].start_point_type = "down" /\ st.conns[j].label = "no"

\* C5: at every step of convert and in the returned graph, no connection
\* starts at a node of type end.
EndNodesAreSinks ==
    \A i \in ConnIndices : st.conns[i].start_item_id \notin EndIds

(***************************************************************************)
(* The statement tree of the input, as the properties below read it.       *)
(* A statement is named by its path: its index in the input list, then the *)
(* index in the block of each enclosing statement.                         *)
(***************************************************************************)
RECURSIVE PathsOf(_, _)
PathsOf(blk, prefix) ==
    UNION {{prefix \o <<k>>} \cup PathsOf(blk[k].body, prefix \o <<k>>) : k \in 1..Len(blk)}
Paths == PathsOf(input, <<>>)

IsBrace(s) == s.tag = "block"
IsIf(s) == s.tag = "branch" /\ s.orig = "if"
IsElse(s) == s.tag = "branch" /\ s.orig = "else"
IsElseIf(s) == s.tag = "branch" /\ s.orig = "elseif"
\* an else or an else-if: a clause that continues the chain of an if
IsElsePart(s) == IsElse(s) \/ IsElseIf(s)
IsLoop(s) == s.orig \in {"while", "for"}
\* return, break, continue
Terminal(s) ==
    s.tag = "statement" /\ (s.text[1] = "return" \/ s.text \in {TextBreak, TextContinue})
\* a statement with one node and one successor
Simple(s) == s.tag = "statement" /\ ~Terminal(s)

RECURSIVE DivergesAt(_, _)
RECURSIVE BlockDiverges(_)
\* statement k of blk never falls through: a return, break or continue, or an
\* if with an else whose two blocks both end divergently
DivergesAt(blk, k) ==
    \/ Terminal(blk[k])
    \/ /\ IsIf(blk[k]) /\ HasChildren(blk[k])
       /\ k < Len(blk) /\ IsElse(blk[k + 1])
       /\ BlockDiverges(blk[k].body) /\ BlockDiverges(blk[k + 1].body)
BlockDiverges(blk) == \E k \in 1..Len(blk) : DivergesAt(blk, k)

\* statement j of blk follows a divergent statement of blk (the else of a
\* divergent if/else belongs to it)
FollowsDivergent(blk, j) ==
    \E k \in 1..(j - 1) : DivergesAt(blk, k) /\ ~(j = k + 1 /\ IsElsePart(blk[j]))
\* the statement at p, or a statement enclosing it, follows a divergent one
Dead(p) ==
    \E n \in 1..Len(p) : FollowsDivergent(BlockOf(input, SubSeq(p, 1, n - 1)), p[n])

\* the id of the node made for the statement at p
Entry(p) == Get(st.stmt_nodes, p, NoNode.id)
HasEntry(p) == Has(st.stmt_nodes, p) /\ \E i \in NodeIndices : st.nodes[i].id = st.stmt_nodes[p]

\* the statements of blk after index k that are neither braces nor else parts
LaterIn(blk, k) == {j \in (k + 1)..Len(blk) : ~IsBrace(blk[j]) /\ ~IsElsePart(blk[j])}
HasNext(p) == LaterIn(BlockOf(input, Front(p)), Last(p)) # {}
NextPath(p) ==
    LET L == LaterIn(BlockOf(input, Front(p)), Last(p))
    IN Front(p) \o <<CHOOSE j \in L : \A m \in L : j <= m>>

\* the loops enclosing the statement at p, as lengths of prefixes of p
LoopPrefixes(p) == {n \in 1..(Len(p) - 1) : IsLoop(StmtAt(input, SubSeq(p, 1, n)))}
InLoop(p) == LoopPrefixes(p) # {}
InnermostLoop(p) ==
    SubSeq(p, 1, CHOOSE n \in LoopPrefixes(p) : \A m \in LoopPrefixes(p) : m <= n)

RECURSIVE Continuation(_)
\* where control goes after the statement at p: the entry node of the next
\* statement of its sequence; at the end of a sequence, End at top level, the
\* decision node of the loop whose body the sequence is, or the continuation
\* of the if or else the sequence belongs to
Continuation(p) ==
    IF HasNext(p) THEN {Entry(NextPath(p))}
    ELSE IF Len(p) = 1 THEN {st.end_node.id}
    ELSE IF IsLoop(StmtAt(input, Front(p))) THEN {Entry(Front(p))}
    ELSE Continuation(Front(p))

\* C6: statements that follow a divergent statement in the same sequence
\* produce no node (hence no connection); for scenario C the decision's only
\* outgoing connections are the two into the sinks of the returns.
UnreachableStatementsOmitted ==
    Returned =>
        /\ \A p \in Paths : Dead(p) => ~Has(st.stmt_nodes, p)
        /\ input = ScenarioC =>
               /\ Cardinality(OutConns(Entry(<<2>>))) = 2
               /\ PortGoesTo(Entry(<<2>>), "right", Entry(<<2, 1>>))
               /\ PortGoesTo(Entry(<<2>>), "down", Entry(<<3, 1>>))
               /\ {Entry(<<2, 1>>), Entry(<<3, 1>>)} \subseteq EndIds

\* the ifs C7 speaks of: an if without else, not itself unreachable, whose
\* then-block is not empty and falls through, followed by a statement
FallThroughIfs ==
    {p \in Paths :
        LET blk == BlockOf(input, Front(p))
            s == StmtAt(input, p)
        IN /\ IsIf(s) /\ HasChildren(s) /\ s.body # <<>>
           /\ ~Dead(p) /\ ~BlockDiverges(s.body)
           /\ Last(p) < Len(blk) /\ ~IsElsePart(blk[Last(p) + 1]) /\ ~IsBrace(blk[Last(p) + 1])}

\* C7: for an if without else whose then-block falls through and which is
\* followed by a statement s, s has one entry node, the decision's True edge
\* goes to the first then-node, its False edge goes to the entry node of s, and
\* a simple last then-statement has a single outgoing edge, to the entry of s.
IfWithoutElseFallsThrough ==
    Returned =>
        \A p \in FallThroughIfs :
            LET body == StmtAt(input, p).body
                s == Front(p) \o <<Last(p) + 1>>
                last == p \o <<Len(body)>>
            IN /\ HasEntry(p) /\ HasEntry(s) /\ HasEntry(p \o <<1>>)
               /\ PortGoesTo(Entry(p), "right", Entry(p \o <<1>>))
               /\ PortGoesTo(Entry(p), "down", Entry(s))
               /\ Simple(body[Len(body)]) => OnlyEdgeInto(Entry(last), {Entry(s)})

\* the loops C8 speaks of: a loop, not itself unreachable, whose body ends
\* with a statement that is reached and falls through
LoopsEndingOpen ==
    {p \in Paths :
        LET s == StmtAt(input, p)
        IN /\ IsLoop(s) /\ HasChildren(s) /\ s.body # <<>> /\ ~Dead(p)
           /\ ~IsElsePart(s.body[Len(s.body)]) /\ ~IsBrace(s.body[Len(s.body)])
           /\ ~BlockDiverges(s.body)}

\* C8: the node of a loop body's last statement, when that statement falls
\* through, has an edge to the loop's own decision node; for scenario B the
\* edges are D(x)-True->a, a->D(y), D(y)-True->break, break->c, D(y)-False->b,
\* b->D(x), D(x)-False->c.
LoopBodyReturnsToItsDecision ==
    Returned =>
        /\ \A p \in LoopsEndingOpen :
               LET last == p \o <<Len(StmtAt(input, p).body)>>
               IN HasEntry(p) /\ HasEntry(last) /\ Edge(Entry(last), Entry(p))
        /\ input = ScenarioB =>
               \E i \in NodeIndices :
                   /\ st.nodes[i].text = TextBreak
                   /\ PortGoesTo(Entry(<<2>>), "right", Entry(<<2, 1>>))
                   /\ OnlyEdgeInto(Entry(<<2, 1>>), {Entry(<<2, 2>>)})
                   /\ PortGoesTo(Entry(<<2, 2>>), "right", st.nodes[i].id)
                   /\ OnlyEdgeInto(st.nodes[i].id, {Entry(<<3>>)})
                   /\ PortGoesTo(Entry(<<2, 2>>), "down", Entry(<<2, 3>>))
                   /\ OnlyEdgeInto(Entry(<<2, 3>>), {Entry(<<2>>)})
                   /\ PortGoesTo(Entry(<<2>>), "down", Entry(<<3>>))

\* the reached statements with the given text that stand inside a loop
ReachedInLoop(text) ==
    {p \in Paths : StmtAt(input, p).tag = "statement" /\ StmtAt(input, p).text = text
                   /\ InLoop(p) /\ ~Dead(p)}

\* C9: every break node inside a loop has exactly one outgoing edge, to the
\* continuation of the innermost enclosing loop: the entry node of the next
\* statement of the loop's sequence, or the continuation of the enclosing
\* construct (the outer loop's decision node, End at top level).
BreakLeavesInnermostLoop ==
    Returned =>
        \A p \in ReachedInLoop(TextBreak) :
            HasEntry(p) /\ OnlyEdgeInto(Entry(p), Continuation(InnermostLoop(p)))

\* C10: every continue node inside a loop has exactly one outgoing edge, to
\* the decision node of the innermost loop enclosing the continue statement;
\* for scenario D the continue goes to the decision node of the for.
ContinueGoesToInnermostLoop ==
    Returned =>
        /\ \A p \in ReachedInLoop(TextContinue) :
               /\ HasEntry(p) /\ HasEntry(InnermostLoop(p))
               /\ OnlyEdgeInto(Entry(p), {Entry(InnermostLoop(p))})
        /\ input = ScenarioD =>
               \E i \in NodeIndices :
                   /\ st.nodes[i].text = TextContinue
                   /\ HasEntry(<<2, 1, 1>>)
                   /\ OnlyEdgeInto(st.nodes[i].id, {Entry(<<2, 1, 1>>)})

\* the reached break or continue statements that no loop encloses
OutsideLoop(text) ==
    {p \in Paths : StmtAt(input, p).tag = "statement" /\ StmtAt(input, p).text = text
                   /\ ~InLoop(p) /\ ~Dead(p)}

\* C11: a break or continue statement with no enclosing loop does not abort
\* the conversion: the graph is returned, and the break node (the continue
\* node) has an outgoing connection to an End node.
StrayJumpGoesToEnd ==
    Returned =>
        \A p \in OutsideLoop(TextBreak) \cup OutsideLoop(TextContinue) :
            HasEntry(p) /\ \E e \in EndIds : Edge(Entry(p), e)

\* the reached ifs whose then-block holds no statement
EmptyIfs ==
    {p \in Paths : IsIf(StmtAt(input, p)) /\ HasChildren(StmtAt(input, p))
                   /\ StmtAt(input, p).body = <<>> /\ ~Dead(p)}

\* C12: an if with an empty then-block has a decision node whose True edge
\* goes to the continuation of the if, and which has a False edge as well.
EmptyIfGoesToContinuation ==
    Returned =>
        \A p \in EmptyIfs :
            /\ HasEntry(p)
            /\ \E c \in Continuation(p) : PortGoesTo(Entry(p), "right", c)
            /\ PortConns(Entry(p), "down") # {}

\* the reached loops without a statement in their body: an empty pair of
\* braces or a lone semicolon, which the parser both gives without a child
\* block
EmptyLoops ==
    {p \in Paths : IsLoop(StmtAt(input, p)) /\ StmtAt(input, p).body = <<>> /\ ~Dead(p)}

\* C13: a loop with an empty body has a decision node L whose True edge goes
\* to L itself and whose False edge goes to the continuation of the loop; the
\* statement after the loop is entered from L and not from the statement
\* before the loop.
EmptyLoopIsSelfLoop ==
    Returned =>
        \A p \in EmptyLoops :
            /\ HasEntry(p)
            /\ PortGoesTo(Entry(p), "right", Entry(p))
            /\ \E c \in Continuation(p) : PortGoesTo(Entry(p), "down", c)
            /\ \A q \in Paths :
                   (HasEntry(q) /\ Front(q) = Front(p) /\ Last(q) < Last(p) /\ HasNext(p))
                   => ~Edge(Entry(q), Entry(NextPath(p)))

\* C14: add_connection refuses a connection from a port on which the start
\* node already has an outgoing connection, so in no state of a conversion
\* does a node have two outgoing connections with the same start_point_type.
OneConnectionPerPort ==
    \A i, j \in ConnIndices :
        (/\ i # j
         /\ st.conns[i].start_item_id = st.conns[j].start_item_id)
        => st.conns[i].start_point_type # st.conns[j].start_point_type

\* every node of this state is a node of the next state, unmodified
NodesKept == \A i \in 1..Len(st.nodes) : \E j \in 1..Len(st'.nodes) : st'.nodes[j] = st.nodes[i]
\* every connection of this state is a connection of the next state
ConnsKept == \A i \in 1..Len(st.conns) : \E j \in 1..Len(st'.conns) : st'.conns[j] = st.conns[i]

MaxNodes == 4

\* the node types the converter passes, and one that self.ids does not know
NodeTypes == {"start", "end", "decision", "process", "input", "subprocess"}

\* NodeManager.reset
node_manager_reset(S) ==
    [S EXCEPT !.nodes = <<>>, !.node_counter = 0, !.start_node = NoNode,
              !.end_node = NoNode, !.last_node = NoNode]

NMInit ==
    /\ input = <<>>
    /\ pc = "nodes"
    /\ item_index = 1
    /\ st = NewConverter
    /\ cur = NoNode
    /\ cur_y = 0
    /\ max_y = 0
    /\ returned = <<>>
    /\ other = NoInstance
    /\ document = NoDocument

\* one call of create_node; cur is the node it returns
NMCreateNode ==
    /\ pc = "nodes"
    /\ st.node_counter < MaxNodes
    /\ \E node_type \in NodeTypes :
          \E c \in {create_node(st, node_type, <<"", "a">>, base_x, base_y)} :
              st' = c.S /\ cur' = c.node
    /\ UNCHANGED <<input, pc, item_index, cur_y, max_y, returned, other, document>>

NMReset ==
    /\ pc = "nodes"
    /\ st.node_counter > 0
    /\ st' = node_manager_reset(st)
    /\ cur' = NoNode
    /\ UNCHANGED <<input, pc, item_index, cur_y, max_y, returned, other, document>>

NMNext == NMCreateNode \/ NMReset

SpecNM == NMInit /\ [][NMNext]_vars

\* C16: between two resets every create_node call appends a node whose id
\* differs from the ids of all nodes made before: the ids of the nodes are
\* pairwise distinct, and there are as many nodes as create_node calls, so
\* no call has overwritten an existing node.
NodeIdsFresh ==
    /\ \A i, j \in NodeIndices : i # j => st.nodes[i].id # st.nodes[j].id
    /\ Len(st.nodes) = st.node_counter
    /\ IsNode(cur) => st.nodes[Len(st.nodes)] = cur

\* the manager holds three nodes, two of them of one type
ThreeNodesTwoAlike ==
    /\ pc = "nodes" /\ Len(st.nodes) >= 3
    /\ \E i, j \in NodeIndices : i # j /\ st.nodes[i].type = st.nodes[j].type
(***************************************************************************)
(* Calling convert again on the same converter.                            *)
(***************************************************************************)
MaxRuns == 2

\* the dictionary convert returns
_build_output(S) == [version |-> "1.0", items |-> S.nodes, connections |-> S.conns]

\* convert returns its output to the caller
BuildOutput ==
    /\ pc = "done"
    /\ returned' = Append(returned, _build_output(st))
    /\ pc' = "returned"
    /\ UNCHANGED <<input, item_index, st, cur, cur_y, max_y, other, document>>

\* the caller calls convert on the same converter again, with a fresh copy
\* of the tree it passed before
ConvertAgain ==
    /\ pc = "returned"
    /\ Len(returned) < MaxRuns
    /\ \E S \in {convert_start(st, input)} :
          /\ st' = S
          /\ cur' = S.start_node
          /\ cur_y' = S.current_y
          /\ max_y' = S.current_y
    /\ item_index' = 1
    /\ pc' = "items"
    /\ UNCHANGED <<input, returned, other, document>>

NextRepeat == Next \/ BuildOutput \/ ConvertAgain

SpecRepeat == Init /\ [][NextRepeat]_vars

\* C17: the graphs one converter returns for equal, freshly copied trees are
\* equal, whatever conversions the converter has done before.
RepeatedConvertReturnsEqualGraphs ==
    \A i, j \in 1..Len(returned) : returned[i] = returned[j]
(***************************************************************************)
(* The keys the converter stores on the statement dictionaries of its      *)
(* input: the pairs of a statement's path and a key.                       *)
(***************************************************************************)
input_keys_written(S) ==
    {<<p, "_context_type">> : p \in DOMAIN S.ctx_type}
        \cup {<<p, "_if_block_info">> : p \in DOMAIN S.if_info}
        \cup {<<p, "_if_block_max_y">> : p \in DOMAIN S.if_max_y}
        \cup {<<p, "_else_block_info">> : p \in DOMAIN S.else_info}
        \cup {<<p, "_else_block_max_y">> : p \in DOMAIN S.else_max_y}
        \cup {<<p, "_break_node">> : p \in DOMAIN S.break_info}
        \cup {<<p, "_switch_case_last_nodes">> : p \in DOMAIN S.switch_last}

\* C18: when convert returns, every statement dictionary of the input has
\* the keys it had before the call: the converter has stored no key on any
\* of them.
InputLeftUnchanged == Returned => input_keys_written(st) = {}
(***************************************************************************)
(* Two converters.  convert_nodes constructs a converter of its own for    *)
(* every function and calls convert on a copy of the function's tree; the  *)
(* second converter and the locals of its call are the record other.  The  *)
(* steps of the two calls are taken in any order.                          *)
(***************************************************************************)
\* one converter for all functions, as convert_nodes would be with a
\* converter constructed once
shared_converter(existing) == existing

\* converter = FlowchartConverter() in convert_nodes: a new converter,
\* whatever converter exists already
convert_nodes_converter(existing) == NewConverter

\* a call of convert on the converter S, at the start of its loop
Instance(S, tree) ==
    [input |-> tree, pc |-> "items", item_index |-> 1, st |-> S,
     cur |-> S.start_node, cur_y |-> S.current_y, max_y |-> S.current_y]

item_done(c, r) ==
    [c EXCEPT !.st = r.S, !.cur = r.node, !.cur_y = r.y,
              !.max_y = Max(c.max_y, r.y), !.item_index = c.item_index + 1]

\* the step convert takes next in the call c
convert_step(c) ==
    IF c.pc = "items"
    THEN IF c.item_index <= Len(c.input)
         THEN item_done(c, convert_item(c.st, c.item_index, c.cur, c.cur_y))
         ELSE [c EXCEPT !.st = _create_end_node(c.st, c.cur, c.max_y), !.pc = "pending"]
    ELSE IF c.pc = "pending"
    THEN [c EXCEPT !.st = _process_pending_reconnects(c.st), !.pc = next_pass(c.pc)]
    ELSE IF c.pc = "orphans"
    THEN [c EXCEPT !.st = _connect_orphan_nodes_generic(c.st), !.pc = next_pass(c.pc)]
    ELSE IF c.pc = "fix_wrong"
    THEN [c EXCEPT !.st = _fix_obviously_wrong_connections(c.st), !.pc = next_pass(c.pc)]
    ELSE IF c.pc = "fix_outer"
    THEN [c EXCEPT !.st = _fix_down_to_outer_layer(c.st), !.pc = next_pass(c.pc)]
    ELSE [c EXCEPT !.st = _process_break_statements(c.st), !.pc = next_pass(c.pc)]

\* the call c continued, with no other call running, up to the position
\* (to_pc, to_index) or to its end
RECURSIVE run_to(_, _, _)
run_to(c, to_pc, to_index) ==
    IF c.pc = "done" \/ (c.pc = to_pc /\ c.item_index = to_index)
    THEN c
    ELSE run_to(convert_step(c), to_pc, to_index)

\* convert_nodes alone: a new converter converts the tree
convert_alone_to(tree, to_pc, to_index) ==
    run_to(Instance(convert_start(NewConverter, tree), tree), to_pc, to_index)

\* the call of convert on the first converter, as a record
First ==
    [input |-> input, pc |-> pc, item_index |-> item_index, st |-> st,
     cur |-> cur, cur_y |-> cur_y, max_y |-> max_y]

\* convert is called on the first converter
StartFirst ==
    /\ pc = "idle"
    /\ \E tree \in Scenarios :
          \E S \in {convert_start(st, tree)} :
              /\ input' = tree
              /\ st' = S
              /\ cur' = S.start_node
              /\ cur_y' = S.current_y
              /\ max_y' = S.current_y
    /\ item_index' = 1
    /\ pc' = "items"
    /\ UNCHANGED <<returned, other, document>>

\* a second converter is constructed and convert is called on it
StartOther ==
    /\ other = NoInstance
    /\ \E tree \in Scenarios :
          other' = Instance(convert_start(convert_nodes_converter(st), tree), tree)
    /\ UNCHANGED <<input, pc, item_index, st, cur, cur_y, max_y, returned, document>>

\* the call on the second converter takes its next step
StepOther ==
    /\ other # NoInstance
    /\ other.pc # "done"
    /\ other' = convert_step(other)
    /\ UNCHANGED <<input, pc, item_index, st, cur, cur_y, max_y, returned, document>>

NextPair ==
    \/ StartFirst
    \/ ProcessItem
    \/ CreateEndNode
    \/ ProcessPendingReconnects
    \/ ConnectOrphanNodes
    \/ FixObviouslyWrongConnections
    \/ FixDownToOuterLayer
    \/ ProcessBreakStatements
    \/ StartOther
    \/ StepOther

SpecPair == Init /\ [][NextPair]_vars

MaxFunctions == 2
node_width == 125
function_offset_x == 450

\* the largest and the smallest of a non-empty set of numbers
SetMax(vals) == CHOOSE v \in vals : \A w \in vals : w <= v
SetMin(vals) == CHOOSE v \in vals : \A w \in vals : v <= w

DigitChars == <<"0", "1", "2", "3", "4", "5", "6", "7", "8", "9">>

RECURSIVE Digits(_)
\* str(n)
Digits(n) == IF n < 10 THEN <<DigitChars[n + 1]>> ELSE Digits(n \div 10) \o <<DigitChars[(n % 10) + 1]>>

\* the string get_unique_id returns: base_id, or f"{base_id}_{node_counter}"
id_text(id) == IF id[2] = 0 THEN <<id[1]>> ELSE <<id[1], "_">> \o Digits(id[2])

\* the output of a conversion with its ids as strings
output_json(S) ==
    [items |-> [i \in 1..Len(S.nodes) |-> [S.nodes[i] EXCEPT !.id = id_text(@)]],
     connections |-> [k \in 1..Len(S.conns) |->
                         [S.conns[k] EXCEPT !.start_item_id = id_text(@),
                                            !.end_item_id = id_text(@)]]]

\* convert_nodes: a new converter converts a copy of the nodes
convert_nodes(nodes) == output_json(convert_alone_to(nodes, "done", 0).st)

\* the names of the functions of the program, and the characters of each
FunctionNames == {"f", "A_f", "A::f"}
Characters(name) ==
    IF name = "f" THEN <<"f">>
    ELSE IF name = "A_f" THEN <<"A", "_", "f">>
    ELSE IF name = "A::f" THEN <<"A", ":", ":", "f">>
    ELSE <<"m", "a", "i", "n">>

WordChars == {"A", "f", "m", "a", "i", "n", "_"} \cup {DigitChars[i] : i \in 1..10}

RECURSIVE sub_non_word(_, _)
\* re.sub(r'[^0-9A-Za-z_]+', '_', name): in_run tells that the character
\* before chars was replaced
sub_non_word(chars, in_run) ==
    IF chars = <<>> THEN <<>>
    ELSE IF Head(chars) \in WordChars THEN <<Head(chars)>> \o sub_non_word(Tail(chars), FALSE)
    ELSE IF in_run THEN sub_non_word(Tail(chars), TRUE)
    ELSE <<"_">> \o sub_non_word(Tail(chars), TRUE)

sanitize_suffix(chars) == IF chars = <<>> THEN <<"f", "u", "n", "c">> ELSE sub_non_word(chars, FALSE)

suffixed(id, suffix) == id \o <<"_">> \o sanitize_suffix(suffix)

\* add_suffix: every node id gets the suffix, and so does every connection
\* end that is the id of a node
add_suffix(output_data, suffix) ==
    LET old_ids == {output_data.items[i].id : i \in 1..Len(output_data.items)}
        mapped(id) == IF id \in old_ids THEN suffixed(id, suffix) ELSE id
    IN [items |-> [i \in 1..Len(output_data.items) |->
                      [output_data.items[i] EXCEPT !.id = suffixed(@, suffix)]],
        connections |-> [k \in 1..Len(output_data.connections) |->
                            [output_data.connections[k] EXCEPT !.start_item_id = mapped(@),
                                                               !.end_item_id = mapped(@)]]]

shift_positions(items, dx, dy) ==
    [i \in 1..Len(items) |-> [items[i] EXCEPT !.x = @ + dx, !.y = @ + dy]]

\* the statement created for the header of a function
create_function_header_node(func_name) == NoBlock("statement", "function", <<"", func_name>>)

\* the nodes of a function as process_all_functions builds them
FunctionNodes(func_name, stmts) == <<create_function_header_node(func_name)>> \o Main(stmts)

NoText == <<"none", "">>

\* get_last_translated_text: the text of the last return among the nodes,
\* else the text of the last node that is neither brace nor header
get_last_translated_text(nodes) ==
    LET valid == {i \in 1..Len(nodes) : nodes[i].tag # "block" /\ nodes[i].orig # "function"}
        returns == {i \in valid : nodes[i].text[1] = "return"}
    IN IF returns # {} THEN nodes[SetMax(returns)].text
       ELSE IF valid # {} THEN nodes[SetMax(valid)].text
       ELSE NoText

\* apply_end_node_policy: the first end node takes the text of the return,
\* or, without a return, all end nodes and their connections are dropped
apply_end_node_policy(output_data, end_text) ==
    LET items == output_data.items
        end_nodes == {i \in 1..Len(items) : items[i].type = "end"}
        keep_end == end_text # NoText /\ ContainsReturn(end_text)
        end_ids == {items[i].id : i \in end_nodes}
    IN IF end_nodes = {} THEN output_data
       ELSE IF keep_end
       THEN [output_data EXCEPT !.items[SetMin(end_nodes)].text = end_text]
       ELSE [items |-> SelectSeq(items, LAMBDA n : n.id \notin end_ids),
             connections |-> SelectSeq(output_data.connections,
                                 LAMBDA c : c.start_item_id \notin end_ids
                                            /\ c.end_item_id \notin end_ids)]

compute_max_x(items) ==
    IF items = <<>> THEN base_x
    ELSE SetMax({items[i].x + node_width : i \in 1..Len(items)})
compute_min_x(items) ==
    IF items = <<>> THEN base_x
    ELSE SetMin({items[i].x : i \in 1..Len(items)})
find_start_y(items) ==
    LET starts == {i \in 1..Len(items) : items[i].type = "start"}
    IN IF starts = {} THEN base_y ELSE items[SetMin(starts)].y

\* the bodies of the functions of the programs main is run on
FunctionBodies ==
    {<<>>, <<Stmt("a")>>, <<Stmt("a"), ReturnOf("1")>>,
     <<IfStmt("x", <<Stmt("a")>>), Stmt("b")>>}

\* the entries of "functions" in the parser's output: a name and the nodes
FunctionEntries ==
    {[name |-> nm, nodes |-> FunctionNodes(nm, b)] : nm \in FunctionNames, b \in FunctionBodies}

\* at most MaxFunctions functions with pairwise distinct names
FunctionLists ==
    {fs \in UNION {[1..n -> FunctionEntries] : n \in 0..MaxFunctions} :
        \A i, j \in DOMAIN fs : i # j => fs[i].name # fs[j].name}

\* the parser's output: the nodes of main (none when the program has no
\* main) and the other functions
Payloads ==
    [main : {<<>>} \cup {FunctionNodes("main", b) : b \in FunctionBodies},
     functions : FunctionLists]

\* the graph of one function as main adds it to the document
function_output(func_nodes) ==
    apply_end_node_policy(convert_nodes(func_nodes), get_last_translated_text(func_nodes))

\* func.get('name') or f'func_{index}'
suffix_of(func, index) ==
    IF func.name = "" THEN <<"f", "u", "n", "c", "_">> \o Digits(index) ELSE Characters(func.name)

\* the document after the graph func_output of one more function is added
extend_document(doc, func_output) ==
    LET func_items == func_output.items
        func_min_x == compute_min_x(func_items)
        target_start_x == IF doc.items # <<>> THEN doc.overall_max_x + function_offset_x
                          ELSE func_min_x
        dx == target_start_x - func_min_x
        func_start_y == find_start_y(func_items)
        target_start_y == IF doc.items # <<>> THEN doc.base_start_y ELSE func_start_y
        dy == target_start_y - func_start_y
        shifted == shift_positions(func_items, dx, dy)
        items == doc.items \o shifted
    IN IF func_items = <<>> THEN doc
       ELSE [items |-> items,
             connections |-> doc.connections \o func_output.connections,
             overall_max_x |-> compute_max_x(items),
             base_start_y |-> IF doc.items = <<>> THEN find_start_y(shifted)
                              ELSE doc.base_start_y]

MergeInit ==
    /\ input \in Payloads
    /\ pc = "merge_main"
    /\ item_index = 1
    /\ st = NewConverter
    /\ cur = NoNode
    /\ cur_y = 0
    /\ max_y = 0
    /\ returned = <<>>
    /\ other = NoInstance
    /\ document = [items |-> <<>>, connections |-> <<>>,
                   overall_max_x |-> base_x, base_start_y |-> base_y]

\* main is converted and starts the document
ConvertMain ==
    /\ pc = "merge_main"
    /\ IF input.main # <<>>
       THEN \E out \in {function_output(input.main)} :
               document' = [items |-> out.items, connections |-> out.connections,
                            overall_max_x |-> compute_max_x(out.items),
                            base_start_y |-> find_start_y(out.items)]
       ELSE document' = document
    /\ pc' = "merge_functions"
    /\ UNCHANGED <<input, item_index, st, cur, cur_y, max_y, returned, other>>

\* one turn of the loop over the other functions
ConvertFunction ==
    /\ pc = "merge_functions"
    /\ item_index <= Len(input.functions)
    /\ \E func \in {input.functions[item_index]} :
          IF func.nodes = <<>> THEN document' = document
          ELSE \E out \in {add_suffix(function_output(func.nodes), suffix_of(func, item_index))} :
                  document' = extend_document(document, out)
    /\ item_index' = item_index + 1
    /\ UNCHANGED <<input, pc, st, cur, cur_y, max_y, returned, other>>

\* output_json is built and written
WriteOutput ==
    /\ pc = "merge_functions"
    /\ item_index > Len(input.functions)
    /\ pc' = "written"
    /\ UNCHANGED <<input, item_index, st, cur, cur_y, max_y, returned, other, document>>

NextMerge == ConvertMain \/ ConvertFunction \/ WriteOutput

SpecMerge == MergeInit /\ [][NextMerge]_vars

\* the ids of the nodes of a graph
ItemIds(items) == {items[i].id : i \in 1..Len(items)}

\* the ids of the graph of each function of the program, as the document
\* names them
FunctionGraphIds ==
    (IF input.main # <<>> THEN {ItemIds(function_output(input.main).items)} ELSE {})
        \cup {ItemIds(add_suffix(function_output(input.functions[k].nodes),
                                 suffix_of(input.functions[k], k)).items) :
                 k \in 1..Len(input.functions)}

\* C20: in the document written for functions with pairwise distinct names,
\* the node ids are pairwise distinct, and the two ends of every connection
\* are ids of nodes of the document that belong to the graph of one function.
MergedDocumentWellFormed ==
    pc = "written" =>
        /\ \A i, j \in 1..Len(document.items) :
              i # j => document.items[i].id # document.items[j].id
        /\ \A k \in 1..Len(document.connections) :
              /\ document.connections[k].start_item_id \in ItemIds(document.items)
              /\ document.connections[k].end_item_id \in ItemIds(document.items)
              /\ \E ids \in FunctionGraphIds :
                    /\ document.connections[k].start_item_id \in ids
                    /\ document.connections[k].end_item_id \in ids
\* the nodes that are end nodes: type "end" with the text "结束"
EndNodeIndices == {i \in NodeIndices : st.nodes[i].type = "end" /\ st.nodes[i].text = TextEnd}

\* C27: once _create_end_node has run, the node list holds exactly one end
\* node, the one created last, and every connection's ends are nodes of the
\* list, so none refers to a removed end node.
OneEndNodeLeft ==
    pc \in {"pending", "orphans", "fix_wrong", "fix_outer", "breaks", "done"} =>
        /\ Cardinality(EndNodeIndices) = 1
        /\ \A i \in EndNodeIndices : \A j \in NodeIndices : st.nodes[j].type = "end" => j <= i
        /\ \A k \in ConnIndices :
              /\ \E i \in NodeIndices : st.nodes[i].id = st.conns[k].start_item_id
              /\ \E i \in NodeIndices : st.nodes[i].id = st.conns[k].end_item_id
(***************************************************************************)
(* The ConnectionManager by itself, with the NodeManager it looks start    *)
(* nodes up in: calls of add_connection with any arguments, on node lists  *)
(* that hold the named nodes or not.  cur is the call made last.           *)
(***************************************************************************)
MaxCMNodes == 1
MaxConns == 3

\* the ids add_connection is called with: two that create_node can have
\* made, one that names no node
CMIds == {<<"start", 0>>, <<"decision", 0>>, <<"process", 7>>}
CMStartPoints == {"down", "right"}

NoCall == [start_item_id |-> <<"none", 0>>, start_point_type |-> "none",
           end_item_id |-> <<"none", 0>>, end_point_type |-> "none"]

CMInit ==
    /\ input = <<>>
    /\ pc = "conns"
    /\ item_index = 1
    /\ st = NewConverter
    /\ cur = NoCall
    /\ cur_y = 0
    /\ max_y = 0
    /\ returned = <<>>
    /\ other = NoInstance
    /\ document = NoDocument

CMCreateNode ==
    /\ pc = "conns"
    /\ st.node_counter < MaxCMNodes
    /\ \E node_type \in {"start", "decision"}, text \in {TextEnd, <<"", "a">>} :
          \E c \in {create_node(st, node_type, text, base_x, base_y)} : st' = c.S
    /\ UNCHANGED <<input, pc, item_index, cur, cur_y, max_y, returned, other, document>>

\* one call of add_connection
CMAddConnection ==
    /\ pc = "conns"
    /\ Len(st.conns) < MaxConns
    /\ \E a \in CMIds, b \in CMIds, point \in CMStartPoints :
          /\ st' = add_connection(st, a, point, b, "up")
          /\ cur' = [start_item_id |-> a, start_point_type |-> point,
                     end_item_id |-> b, end_point_type |-> "up"]
    /\ UNCHANGED <<input, pc, item_index, cur_y, max_y, returned, other, document>>

CMNext == CMCreateNode \/ CMAddConnection

SpecCM == CMInit /\ [][CMNext]_vars

\* the four fields that tell connections apart
ConnKey(c) == <<c.start_item_id, c.start_point_type, c.end_item_id, c.end_point_type>>

\* C28: after any calls of add_connection no connection joins a node to
\* itself and no two connections agree in start id, start point, end id and
\* end point; a call that would add such a connection leaves the list as it
\* was.
ConnectionsStayClean ==
    [][/\ \A k \in 1..Len(st'.conns) : st'.conns[k].start_item_id # st'.conns[k].end_item_id
       /\ \A k, m \in 1..Len(st'.conns) : k # m => ConnKey(st'.conns[k]) # ConnKey(st'.conns[m])
       /\ \/ cur'.start_item_id = cur'.end_item_id
          \/ \E k \in ConnIndices : ConnKey(st.conns[k]) = ConnKey(cur')
          => st'.conns = st.conns]_vars

\* the list holds two connections that differ in the start point only, and
\* the call made last repeated one of them
DuplicateCallRefused ==
    /\ pc = "conns"
    /\ Len(st.conns) = 2
    /\ st.conns[1].start_item_id = st.conns[2].start_item_id
    /\ st.conns[1].end_item_id = st.conns[2].end_item_id
    /\ ConnKey(cur) = ConnKey(st.conns[1])
\* the ids of the nodes on the node list
NodeIds == {st.nodes[i].id : i \in NodeIndices}

\* C29: the two ends of every connection are ids of nodes on the node list,
\* at every step of convert and so in the graph it returns.
NoDanglingConnection ==
    \A k \in ConnIndices :
        st.conns[k].start_item_id \in NodeIds /\ st.conns[k].end_item_id \in NodeIds

\* a graph with two end nodes, each entered by a connection, has been
\* returned after all passes
ReturnedWithTwoEnds ==
    /\ Returned /\ input = ScenarioC
    /\ Cardinality(EndIds) = 2
    /\ \A e \in EndIds : InConns(e) # {}
\* the input has a loop statement, a break or a continue somewhere
HasLoopStatement ==
    \E p \in Paths :
        IsLoop(StmtAt(input, p)) \/ StmtAt(input, p).text \in {TextBreak, TextContinue}

\* the ids a connection leads to from one of the ids in from
Successors(from) == {st.conns[k].end_item_id : k \in {i \in ConnIndices : st.conns[i].start_item_id \in from}}

RECURSIVE ReachableFrom(_, _)
\* the ids reached from frontier by one connection or more, seen included
ReachableFrom(frontier, seen) ==
    IF frontier \subseteq seen THEN seen
    ELSE ReachableFrom(Successors(frontier), seen \cup frontier)

\* the ids that lie on a directed cycle
OnCycle == {id \in NodeIds : id \in ReachableFrom(Successors({id}), {})}

\* C30: the graph returned for a tree without loop statements has no
\* directed cycle.
LoopFreeInputGivesAcyclicGraph == (Returned /\ ~HasLoopStatement) => OnCycle = {}
\* the connections leaving a with the given label
LabelConns(a, label) == {i \in OutConns(a) : st.conns[i].label = label}
\* a has connections with the label, and all of them end at a node of T
LabelGoesInto(a, label, T) ==
    /\ LabelConns(a, label) # {}
    /\ \A i \in LabelConns(a, label) : st.conns[i].end_item_id \in T

\* the loops C23 speaks of: a loop with a body that is not empty, not itself
\* unreachable
LoopsWithBody ==
    {p \in Paths :
        LET s == StmtAt(input, p)
        IN IsLoop(s) /\ HasChildren(s) /\ s.body # <<>> /\ ~Dead(p)}

\* C23: the decision of every loop with a body has its True edge to the first
\* node of the body and its False edge to the loop's continuation.
LoopDecisionEdges ==
    Returned =>
        \A p \in LoopsWithBody :
            /\ HasEntry(p) /\ HasEntry(p \o <<1>>)
            /\ LabelGoesInto(Entry(p), "yes", {Entry(p \o <<1>>)})
            /\ LabelGoesInto(Entry(p), "no", Continuation(p))
\* the clauses of if / else-if / else chains that have a decision and a block
\* that is not empty: the if and the else-ifs, when reached
ChainClauses ==
    {q \in Paths :
        LET s == StmtAt(input, q)
        IN (IsIf(s) \/ IsElseIf(s)) /\ HasChildren(s) /\ s.body # <<>> /\ ~Dead(q)}
\* the clause after q in its chain, if any
HasNextClause(q) ==
    /\ Last(q) < Len(BlockOf(input, Front(q)))
    /\ IsElsePart(BlockOf(input, Front(q))[Last(q) + 1])
NextClause(q) == Front(q) \o <<Last(q) + 1>>
\* where the False edge of clause q belongs: the decision of the next else-if,
\* the first node of the else block, or the chain's continuation
FalseTarget(q) ==
    IF ~HasNextClause(q) THEN Continuation(q)
    ELSE IF IsElseIf(StmtAt(input, NextClause(q))) THEN {Entry(NextClause(q))}
    ELSE IF StmtAt(input, NextClause(q)).body # <<>> THEN {Entry(NextClause(q) \o <<1>>)}
    ELSE Continuation(q)
\* the blocks of chains that end with a simple statement: paths of the last
\* statement of the block of an if, an else-if or an else of a chain
ChainBlockEnds ==
    {q \o <<Len(StmtAt(input, q).body)>> :
        q \in {r \in Paths :
                 LET s == StmtAt(input, r)
                 IN /\ IsIf(s) \/ IsElsePart(s)
                    /\ HasChildren(s) /\ s.body # <<>> /\ ~Dead(r)
                    /\ Simple(s.body[Len(s.body)])}}

\* C22: in an if / else-if / else chain every clause's decision has its True
\* edge to the first node of its own block and its False edge to the next
\* clause, or to the chain's continuation when no clause follows, and the last
\* node of every clause block that falls through has an edge to the chain's
\* continuation.
ChainEdges ==
    Returned =>
        /\ \A q \in ChainClauses :
              /\ HasEntry(q) /\ HasEntry(q \o <<1>>)
              /\ LabelGoesInto(Entry(q), "yes", {Entry(q \o <<1>>)})
              /\ LabelGoesInto(Entry(q), "no", FalseTarget(q))
        /\ \A e \in ChainBlockEnds :
              HasEntry(e) /\ \E c \in Continuation(Front(e)) : Edge(Entry(e), c)
\* the statements C24 speaks of: simple statements, ifs, else-ifs, loops,
\* returns, breaks and continues that are reached (neither braces nor elses)
NodeStatements ==
    {p \in Paths :
        LET s == StmtAt(input, p) IN ~IsBrace(s) /\ ~IsElse(s) /\ ~Dead(p)}
\* the nodes convert makes on its own account: Start and the End node of
\* _create_end_node
SyntheticIds == {st.start_node.id, st.end_node.id}

\* C24: every reached statement that is neither a brace nor an else has one
\* node of its own in the returned graph, and every node other than Start and
\* the End node of _create_end_node is the node of exactly one statement.
OneNodePerStatement ==
    Returned =>
        /\ \A p \in NodeStatements : HasEntry(p)
        /\ \A p, q \in NodeStatements : (HasEntry(p) /\ HasEntry(q) /\ p # q) => Entry(p) # Entry(q)
        /\ \A id \in NodeIds \ SyntheticIds : \E p \in NodeStatements : HasEntry(p) /\ Entry(p) = id
\* a text of the same kind with another wording: conditions read x, simple
\* statements read a; keywords (return, break, continue, else, braces) stay
retext(t) ==
    IF t[1] \in {"if", "elif", "while", "for"} THEN <<t[1], "x">>
    ELSE IF t[1] = "" /\ t \notin {TextBreak, TextContinue, Brace.text} THEN <<"", "a">>
    ELSE t
RECURSIVE Retexted(_)
\* the tree blk with every statement's translated text replaced by retext
Retexted(blk) ==
    [k \in 1..Len(blk) |-> [blk[k] EXCEPT !.text = retext(@), !.body = Retexted(@)]]

\* the connections of the finished conversion c are those of the converter
SameConnections(c) == c.st.conns = st.conns

\* C25: the connections of the returned graph are those returned for the tree
\* of the same structure whose statements carry other texts (node ids do not
\* hold text, so corresponding nodes have equal ids).
EdgesIndependentOfText ==
    Returned => SameConnections(convert_alone_to(Retexted(input), "done", 0))
\* the trees of the conversions whose every step is followed to the end
LiveInputs == Scenarios \cup Chains

RECURSIVE calls_from(_, _)
\* the positions convert is in, from the positions of frontier on
calls_from(frontier, seen) ==
    IF frontier \subseteq seen THEN seen
    ELSE calls_from({convert_step(c) : c \in {d \in frontier \ seen : d.pc # "done"}},
                    seen \cup frontier)
\* the positions of the calls of convert on the trees of LiveInputs
Calls == calls_from({Instance(convert_start(NewConverter, tree), tree) : tree \in LiveInputs}, {})
\* the step convert takes at each position where it has not returned
StepOf == [c \in {d \in Calls : d.pc # "done"} |-> convert_step(c)]

\* convert is called on a tree of LiveInputs
ConvertLive ==
    /\ pc = "idle"
    /\ \E tree \in LiveInputs :
          \E c \in {Instance(convert_start(st, tree), tree)} :
              /\ input' = tree
              /\ st' = c.st
              /\ cur' = c.cur
              /\ cur_y' = c.cur_y
              /\ max_y' = c.max_y
    /\ item_index' = 1
    /\ pc' = "items"
    /\ UNCHANGED <<returned, other, document>>

\* the next step of the conversion under way: one turn of the loop over
\* input_json, _create_end_node, or one of the passes
StepLive ==
    /\ pc \notin {"idle", "done"}
    /\ First \in DOMAIN StepOf
    /\ \E c \in {StepOf[First]} :
          /\ pc' = c.pc
          /\ item_index' = c.item_index
          /\ st' = c.st
          /\ cur' = c.cur
          /\ cur_y' = c.cur_y
          /\ max_y' = c.max_y
    /\ UNCHANGED <<input, returned, other, document>>

NextLive == ConvertLive \/ StepLive

\* convert runs on one thread without waiting for anything: a conversion
\* under way takes its next step
SpecLive == Init /\ [][NextLive]_vars /\ WF_vars(StepLive)

CaseBlock(body) == WithBlock("case", "case", <<"case", "">>, "case_children", body)
SwitchStmt(c, cases) == WithBlock("branch", "switch", <<"switch", c>>, "case_block", cases)

MaxCases == 3
CaseBodies == {<<Stmt("a")>>, <<Stmt("b")>>, <<Stmt("a"), Stmt("b")>>}
Switches ==
    {SwitchStmt("x", [j \in 1..n |-> CaseBlock(f[j])]) :
        n \in 1..MaxCases, f \in [1..MaxCases -> CaseBodies]}
SwitchTails == {<<>>, <<Stmt("d")>>}
\* a switch first in main, first in the block of an if, first in the body of
\* a while loop; with and without a statement after it
SwitchInputs ==
    {Main(<<sw>> \o tail) : sw \in Switches, tail \in SwitchTails}
        \cup {Main(<<IfStmt("y", <<sw>> \o tail)>>) : sw \in Switches, tail \in SwitchTails}
        \cup {Main(<<WhileStmt("w", <<sw>> \o tail)>>) : sw \in Switches, tail \in SwitchTails}

ConvertSwitch ==
    /\ pc = "idle"
    /\ \E tree \in SwitchInputs :
          LET S == convert_start(st, tree)
          IN /\ input' = tree
             /\ st' = S
             /\ cur' = S.start_node
             /\ cur_y' = S.current_y
             /\ max_y' = S.current_y
    /\ item_index' = 1
    /\ pc' = "items"
    /\ UNCHANGED <<returned, other, document>>

NextSwitch ==
    \/ ConvertSwitch
    \/ ProcessItem
    \/ CreateEndNode
    \/ ProcessPendingReconnects
    \/ ConnectOrphanNodes
    \/ FixObviouslyWrongConnections
    \/ FixDownToOuterLayer
    \/ ProcessBreakStatements

SpecSwitch == Init /\ [][NextSwitch]_vars

\* the switches of the input that got a decision node
SwitchPaths ==
    {p \in Paths : StmtAt(input, p).btype = "case_block" /\ Has(st.stmt_nodes, p)}
SwitchDecision(p) == st.stmt_nodes[p]
\* the statement after the switch in its block, if it is one with a node
HasFollowing(p) ==
    /\ Last(p) < Len(BlockOf(input, Front(p)))
    /\ BlockOf(input, Front(p))[Last(p) + 1].tag # "block"
    /\ Has(st.stmt_nodes, Front(p) \o <<Last(p) + 1>>)
Following(p) == st.stmt_nodes[Front(p) \o <<Last(p) + 1>>]
\* the node of the last statement of every case of the switch
CaseEnds(p) ==
    {st.stmt_nodes[p \o <<j, Len(StmtAt(input, p).body[j].body)>>] :
        j \in 1..Len(StmtAt(input, p).body)}
Joined(a, b) ==
    \E i \in ConnIndices : st.conns[i].start_item_id = a /\ st.conns[i].end_item_id = b

\* C21: the decision of a switch has exactly one outgoing edge per case block
\* (no input here has a default), and the statement after the switch is
\* entered from the last node of every case and not from the decision.
SwitchDecisionEdges ==
    Returned =>
        \A p \in SwitchPaths :
            /\ Cardinality(OutConns(SwitchDecision(p))) = Len(StmtAt(input, p).body)
            /\ HasFollowing(p) =>
                  /\ ~Joined(SwitchDecision(p), Following(p))
                  /\ \A e \in CaseEnds(p) : Joined(e, Following(p))
\* one edge per case does hold as a lower bound: every case is entered from
\* the decision
SwitchCasesEntered ==
    Returned =>
        \A p \in SwitchPaths :
            \A j \in 1..Len(StmtAt(input, p).body) :
                Joined(SwitchDecision(p), st.stmt_nodes[p \o <<j, 1>>])

====
